---------------------------- MODULE Spec2Model ----------------------------
(***************************************************************************)
(* Refresh/ingestion pipeline of steam-achievement-tracker:                *)
(*   db/hashutil.go      fingerprints over catalog and state vectors       *)
(*   db/sqlite_repo.go   the SQLite repository (single pooled connection)  *)
(*   service/ingest.go   IngestOneGame, RefreshUserConcurrent              *)
(*                                                                         *)
(* Go strings are sequences of one-character strings, so that TrimSpace,   *)
(* sort.Strings and strings.Join are computed and not assumed.             *)
(***************************************************************************)
EXTENDS Integers, Sequences, FiniteSets, TLC

(***************************************************************************)
(* Bounds of the model.                                                    *)
(***************************************************************************)
MaxRuns == 3
MaxWorkers == 2
MaxFaults == 2
MaxClock == 2
\* config.SchemaTTL(), in clock ticks
SchemaTTL == 2
\* config.ThrottleWindow(), in clock ticks
ThrottleWindow == 2
\* longest list handed to a function called on its own
MaxLen == 3
\* largest achievement count of a snapshot handed to BuildRow on its own
MaxTotal == 2

(***************************************************************************)
(* Strings.                                                                *)
(***************************************************************************)
Code(c) ==
    CASE c = "\n" -> 10
      [] c = " " -> 32
      [] c = "0" -> 48
      [] c = "1" -> 49
      [] c = "2" -> 50
      [] c = "3" -> 51
      [] c = "4" -> 52
      [] c = "5" -> 53
      [] c = "6" -> 54
      [] c = "7" -> 55
      [] c = "8" -> 56
      [] c = "9" -> 57
      [] c = "a" -> 97
      [] c = "b" -> 98
      [] c = "|" -> 124

\* Go's s < t on strings: bytewise lexicographic order
RECURSIVE StrLess(_, _)
StrLess(s, t) ==
    IF t = <<>> THEN FALSE
    ELSE IF s = <<>> THEN TRUE
    ELSE IF Head(s) = Head(t) THEN StrLess(Tail(s), Tail(t))
    ELSE Code(Head(s)) < Code(Head(t))

IsSpace(c) == c \in {" ", "\n"}

RECURSIVE TrimLeft(_)
TrimLeft(s) ==
    IF s # <<>> /\ IsSpace(Head(s)) THEN TrimLeft(Tail(s)) ELSE s

RECURSIVE TrimRight(_)
TrimRight(s) ==
    IF s # <<>> /\ IsSpace(s[Len(s)]) THEN TrimRight(SubSeq(s, 1, Len(s) - 1)) ELSE s

\* strings.TrimSpace
TrimSpace(s) == TrimRight(TrimLeft(s))

Digit(d) ==
    CASE d = 0 -> "0" [] d = 1 -> "1" [] d = 2 -> "2" [] d = 3 -> "3" [] d = 4 -> "4"
      [] d = 5 -> "5" [] d = 6 -> "6" [] d = 7 -> "7" [] d = 8 -> "8" [] d = 9 -> "9"

\* strconv.FormatInt(n, 10) for n >= 0
RECURSIVE FormatInt(_)
FormatInt(n) ==
    IF n < 10 THEN <<Digit(n)>> ELSE FormatInt(n \div 10) \o <<Digit(n % 10)>>

\* insertion of one string into a sorted sequence of strings
RECURSIVE InsertSorted(_, _)
InsertSorted(x, sorted) ==
    IF sorted = <<>> THEN <<x>>
    ELSE IF StrLess(x, Head(sorted)) THEN <<x>> \o sorted
    ELSE <<Head(sorted)>> \o InsertSorted(x, Tail(sorted))

\* mutant: the lines are left in the order they came in
SortStringsNone(lines) == lines

\* sort.Strings
RECURSIVE SortStrings(_)
SortStrings(lines) ==
    IF lines = <<>> THEN <<>>
    ELSE InsertSorted(Head(lines), SortStrings(Tail(lines)))

\* strings.Join(lines, "\n")
RECURSIVE JoinLines(_)
JoinLines(lines) ==
    IF lines = <<>> THEN <<>>
    ELSE IF Len(lines) = 1 THEN Head(lines)
    ELSE Head(lines) \o <<"\n">> \o JoinLines(Tail(lines))

(***************************************************************************)
(* Fingerprints (db/hashutil.go).  SHA-256 is taken to be collision free:  *)
(* a digest is represented by the string it was computed from.             *)
(***************************************************************************)
sha256Hex(s) == <<"sha256", s>>

CatalogHash(appid, apinames) ==
    IF Len(apinames) = 0 THEN sha256Hex(<<>>)
    ELSE LET prefix == FormatInt(appid) \o <<"|">>
             lines == [i \in 1..Len(apinames) |-> prefix \o TrimSpace(apinames[i])]
         IN  sha256Hex(JoinLines(SortStrings(lines)))

StateHash(appid, items) ==
    IF Len(items) = 0 THEN sha256Hex(<<>>)
    ELSE LET prefix == FormatInt(appid) \o <<"|">>
             lines == [i \in 1..Len(items) |->
                          prefix \o TrimSpace(items[i].APIName) \o <<"|">>
                                 \o <<(IF items[i].Achieved THEN "1" ELSE "0")>>]
         IN  sha256Hex(JoinLines(SortStrings(lines)))

\* some enumeration of a finite set (the iteration order of a Go map)
RECURSIVE SetToSeq(_)
SetToSeq(S) ==
    IF S = {} THEN <<>>
    ELSE LET x == CHOOSE y \in S : TRUE IN <<x>> \o SetToSeq(S \ {x})

RECURSIVE InsertByAPIName(_, _)
InsertByAPIName(x, sorted) ==
    IF sorted = <<>> THEN <<x>>
    ELSE IF StrLess(x.APIName, Head(sorted).APIName) THEN <<x>> \o sorted
    ELSE <<Head(sorted)>> \o InsertByAPIName(x, Tail(sorted))

RECURSIVE SortByAPIName(_)
SortByAPIName(rows) ==
    IF rows = <<>> THEN <<>>
    ELSE InsertByAPIName(Head(rows), SortByAPIName(Tail(rows)))

\* state: a Go map apiname -> achieved, as a function
BuildSnapshotAchievements(state) ==
    IF DOMAIN state = {} THEN <<>>
    ELSE LET keys == SetToSeq(DOMAIN state)
             out == [i \in 1..Len(keys) |-> [APIName |-> keys[i], Achieved |-> state[keys[i]]]]
         IN  SortByAPIName(out)

\* the same with the order in which `range state` yields the keys made explicit
BuildSnapshotAchievementsRange(state, keys) ==
    IF DOMAIN state = {} THEN <<>>
    ELSE LET out == [i \in 1..Len(keys) |-> [APIName |-> keys[i], Achieved |-> state[keys[i]]]]
         IN  SortByAPIName(out)


(***************************************************************************)
(* Values exchanged with the Steam API (steamapi client).                  *)
(***************************************************************************)
NameA == <<"a">>
NameB == <<"b">>
NameASp == <<"a", " ">>

Users == {"u1"}
Apps == {1, 2}

Game1 == [AppID |-> 1, Name |-> "one"]
Game2 == [AppID |-> 2, Name |-> "two"]

Def(n) == [APIName |-> n]
Ach(n, b) == [APIName |-> n, Achieved |-> b]

Workers == 1..MaxWorkers
\* activations of RefreshUserConcurrent that can be in progress at once
Runs == {1, 2}

(***************************************************************************)
(* State.                                                                  *)
(***************************************************************************)
VARIABLES
    clock,                  \* wall clock (time.Now, CURRENT_TIMESTAMP)
    games,                  \* table games
    achievement_catalog,    \* table achievement_catalog
    snapshots,              \* table snapshots
    snapshot_achievements,  \* table snapshot_achievements
    seq,                    \* AUTOINCREMENT counter of snapshots.id
    tx,                     \* the transaction holding the single connection
    run,                    \* RefreshUserConcurrent activations
    wk,                     \* their worker goroutines
    faults,                 \* repository failures injected so far
    started,                \* refreshes started so far
    env,                    \* what the surroundings may do: the Steam API's possible
                            \* answers, the worker counts asked for, the failure budget
    ingestLog,              \* history: IngestOneGame calls that returned an id
    throttle_gate,          \* table throttle_gate
    req,                    \* the refresh requests being served (routes.go)
    cmp,                    \* a BuildComparisonForGame call in progress
    call                    \* a call of one of the pure functions: its arguments and result

vars == <<clock, games, achievement_catalog, snapshots, snapshot_achievements, seq,
          tx, run, wk, faults, started, env, ingestLog, throttle_gate, req, cmp,
          call>>

\* what no step of RefreshUserConcurrent touches
outside == <<env, throttle_gate, req, cmp, call>>

dbVars == <<games, achievement_catalog, snapshots, snapshot_achievements, seq>>

\* sql.NullInt64 / sql.NullTime and the *int / *time.Time made from them
Null == [Valid |-> FALSE, V |-> 0]
NotNull(v) == [Valid |-> TRUE, V |-> v]

\* error values: the failing call and the goroutine it failed in (0: the coordinator)
Err(op, w) == [op |-> op, w |-> w]
NoErr == Err("nil", 0)
ErrNoRows == Err("sql.ErrNoRows", 0)
ErrCanceled == Err("ctx.Err", 0)

NoTx == [open |-> FALSE, owner |-> <<0, 0>>, snapshots |-> {}, snapshot_achievements |-> {},
         seq |-> 0, id |-> 0, k |-> 0]

ZeroStats == [Owned |-> 0, Queued |-> 0, Checked |-> 0, Updated |-> 0, Skipped |-> 0,
              SkippedCached |-> 0, Snapshots |-> 0]

NoJob == [AppID |-> 0, Name |-> ""]

IdleRun == [pc |-> "idle", steamid |-> "", workers |-> 0, owned |-> <<>>, i |-> 0, now |-> 0,
            jobs |-> <<>>, errs |-> <<>>, ctxDone |-> FALSE, done |-> FALSE,
            stats |-> ZeroStats, ret |-> [err |-> NoErr, stats |-> ZeroStats],
            taken |-> {}, gate |-> <<>>, calls |-> {}, fetchErr |-> {}, cacheErr |-> {}]

\* a request slot of the HTTP layer: no request, or the handler's position
IdleReq == [pc |-> "idle", kind |-> "", steamid |-> "", status |-> 0]

\* BuildComparisonForGame's locals (ingest.go:274-300)
IdleCmp == [pc |-> "idle", steamid |-> "", appid |-> 0, snaps |-> <<>>, ids |-> <<>>,
            prevAch |-> <<>>, currAch |-> <<>>, ok |-> FALSE, err |-> NoErr,
            diff |-> <<>>, row |-> <<>>]

IdleWorker == [pc |-> "idle", g |-> NoJob, defs |-> <<>>, gameName |-> "", states |-> <<>>,
               cnt |-> 0]

\* the state after main.go has opened the database and applied the migrations
InitProgram ==
    /\ clock = 0
    /\ games = {}
    /\ achievement_catalog = {}
    /\ snapshots = {}
    /\ snapshot_achievements = {}
    /\ seq = 0
    /\ tx = NoTx
    /\ run = [r \in Runs |-> IdleRun]
    /\ wk = [r \in Runs |-> [w \in Workers |-> IdleWorker]]
    /\ faults = 0
    /\ started = 0
    /\ ingestLog = {}
    /\ throttle_gate = {}
    /\ req = [r \in Runs |-> IdleReq]
    /\ cmp = IdleCmp

\* no pure function is being called
NoCall == [pc |-> "idle", fn |-> "", in |-> <<>>, out |-> <<>>]

(***************************************************************************)
(* Repository (db/sqlite_repo.go), one operator per statement.             *)
(***************************************************************************)
HasGame(appid) == \E g \in games : g.appid = appid
GameRow(appid) == CHOOSE g \in games : g.appid = appid

\* SELECT achievements_count, schema_checked_at FROM games WHERE appid=?
GetGameSchemaCache(appid) ==
    IF ~HasGame(appid)
    THEN [err |-> ErrNoRows, achCount |-> Null, checkedAt |-> Null]
    ELSE [err |-> NoErr,
          achCount |-> GameRow(appid).achievements_count,
          checkedAt |-> GameRow(appid).schema_checked_at]

\* INSERT INTO games(appid, name, achievements_count, schema_checked_at) ...
\* ON CONFLICT(appid) DO UPDATE SET achievements_count, schema_checked_at
UpdateGameSchemaCache(appid, achCount, checkedAt) ==
    IF HasGame(appid)
    THEN (games \ {GameRow(appid)}) \cup
         {[GameRow(appid) EXCEPT !.achievements_count = NotNull(achCount),
                                 !.schema_checked_at = NotNull(checkedAt)]}
    ELSE games \cup {[appid |-> appid, name |-> "",
                      achievements_count |-> NotNull(achCount),
                      schema_checked_at |-> NotNull(checkedAt)]}

\* mutant: INSERT OR REPLACE, the row is replaced and its cache columns are lost
UpsertGameReplaces(g) ==
    {x \in games : x.appid # g.AppID} \cup
        {[appid |-> g.AppID, name |-> g.Name,
          achievements_count |-> Null, schema_checked_at |-> Null]}

\* INSERT INTO games(appid, name) ... ON CONFLICT(appid) DO UPDATE SET name
UpsertGame(g) ==
    IF HasGame(g.AppID)
    THEN (games \ {GameRow(g.AppID)}) \cup {[GameRow(g.AppID) EXCEPT !.name = g.Name]}
    ELSE games \cup {[appid |-> g.AppID, name |-> g.Name,
                      achievements_count |-> Null, schema_checked_at |-> Null]}

\* INSERT INTO achievement_catalog ... ON CONFLICT(appid, apiname) DO UPDATE
\* (the display columns name and descr are read by no operation and not kept)
UpsertAchievementDefs(defs) ==
    achievement_catalog \cup
        {[appid |-> defs[i].AppID, apiname |-> defs[i].APIName] : i \in 1..Len(defs)}

\* FOREIGN KEY (appid) REFERENCES games(appid) of achievement_catalog
DefsForeignKeyOK(defs) == \A i \in 1..Len(defs) : HasGame(defs[i].AppID)

\* ORDER BY taken_at DESC, id DESC
Newer(s, t) == s.taken_at > t.taken_at \/ (s.taken_at = t.taken_at /\ s.id > t.id)

RECURSIVE NewestFirst(_, _)
NewestFirst(rows, limit) ==
    IF rows = {} \/ limit = 0 THEN <<>>
    ELSE LET top == CHOOSE s \in rows : \A t \in rows \ {s} : Newer(s, t)
         IN  <<top>> \o NewestFirst(rows \ {top}, limit - 1)

GetLatestSnapshots(steamid, appid, limit) ==
    NewestFirst({s \in snapshots : s.steamid = steamid /\ s.appid = appid},
                IF limit <= 0 THEN 2 ELSE limit)


\* the fields IngestOneGame computes and hands to InsertSnapshot (ingest.go:15-38)
TotalDone(achieved) == Cardinality({n \in DOMAIN achieved : achieved[n]})

IngestOneGame(steamid, appid, apinames, achieved) ==
    [SteamID |-> steamid,
     AppID |-> appid,
     TotalDone |-> TotalDone(achieved),
     TotalAvailable |-> Len(apinames),
     CatalogHash |-> CatalogHash(appid, apinames),
     StateHash |-> StateHash(appid, BuildSnapshotAchievements(achieved)),
     Achievements |-> BuildSnapshotAchievements(achieved)]

\* mutant: the comparison without the state fingerprint
unchangedIgnoringState(steamid, appid, totalDone, totalAvail, catHash, stateHash) ==
    LET snaps == GetLatestSnapshots(steamid, appid, 1)
    IN  IF Len(snaps) = 0 THEN FALSE
        ELSE /\ snaps[1].total_done = totalDone
             /\ snaps[1].total_available = totalAvail
             /\ snaps[1].catalog_hash = catHash

\* unchangedAgainstLatest (ingest.go:238-251), the lookup having succeeded
unchangedAgainstLatest(steamid, appid, totalDone, totalAvail, catHash, stateHash) ==
    LET snaps == GetLatestSnapshots(steamid, appid, 1)
    IN  IF Len(snaps) = 0 THEN FALSE
        ELSE /\ snaps[1].total_done = totalDone
             /\ snaps[1].total_available = totalAvail
             /\ snaps[1].catalog_hash = catHash
             /\ snaps[1].state_hash = stateHash

firstNonEmpty(a, b) == IF a # "" THEN a ELSE b

(***************************************************************************)
(* InsertSnapshot (sqlite_repo.go:98-150), statement by statement, on the  *)
(* transaction's view t of the tables.                                     *)
(***************************************************************************)
SameKey(s, in) ==
    /\ s.steamid = in.SteamID
    /\ s.appid = in.AppID
    /\ s.catalog_hash = in.CatalogHash
    /\ s.state_hash = in.StateHash

\* mutant: the header insert without its ON CONFLICT ... DO NOTHING
InsertHeaderNoConflict(t, in, at) ==
    [t EXCEPT !.snapshots = @ \cup
                 {[id |-> t.seq + 1, steamid |-> in.SteamID, appid |-> in.AppID,
                   total_done |-> in.TotalDone, total_available |-> in.TotalAvailable,
                   catalog_hash |-> in.CatalogHash, state_hash |-> in.StateHash,
                   taken_at |-> at]},
              !.seq = @ + 1]

\* INSERT INTO snapshots ... ON CONFLICT(steamid, appid, catalog_hash, state_hash) DO NOTHING
InsertHeader(t, in, at) ==
    IF \E s \in t.snapshots : SameKey(s, in)
    THEN t
    ELSE [t EXCEPT !.snapshots = @ \cup
                      {[id |-> t.seq + 1, steamid |-> in.SteamID, appid |-> in.AppID,
                        total_done |-> in.TotalDone, total_available |-> in.TotalAvailable,
                        catalog_hash |-> in.CatalogHash, state_hash |-> in.StateHash,
                        taken_at |-> at]},
                   !.seq = @ + 1]

\* SELECT id FROM snapshots WHERE <key> ORDER BY taken_at DESC LIMIT 1
SelectID(t, in) ==
    LET rows == {s \in t.snapshots : SameKey(s, in)}
    IN  (CHOOSE s \in rows : \A o \in rows : s.taken_at >= o.taken_at).id

\* INSERT INTO snapshot_achievements ... ON CONFLICT(snapshot_id, apiname) DO UPDATE
InsertAchievement(t, in, a) ==
    [t EXCEPT !.snapshot_achievements =
        {x \in @ : ~(x.snapshot_id = t.id /\ x.apiname = a.APIName)} \cup
        {[snapshot_id |-> t.id, appid |-> in.AppID, apiname |-> a.APIName,
          achieved |-> a.Achieved]}]

\* FOREIGN KEY (appid, apiname) REFERENCES achievement_catalog of snapshot_achievements
AchievementForeignKeyOK(in, a) ==
    \E c \in achievement_catalog : c.appid = in.AppID /\ c.apiname = a.APIName


\* what a transaction leaves in the tables when it commits, and when it is rolled back
Commit(t) ==
    [snapshots |-> t.snapshots, snapshot_achievements |-> t.snapshot_achievements,
     seq |-> t.seq]

\* mutant: a failing statement that leaves the transaction's writes in place
RollbackKeepsWrites(t) == Commit(t)

Rollback(t) ==
    [snapshots |-> snapshots, snapshot_achievements |-> snapshot_achievements, seq |-> seq]

(***************************************************************************)
(* Outcome of a repository call made with the context of run r.            *)
(* db.SetMaxOpenConns(1): a call waits while a transaction holds the       *)
(* connection; a call on a cancelled context fails; any other call may     *)
(* fail (at most MaxFaults such failures are injected).                    *)
(***************************************************************************)
ConnFree == ~tx.open
\* mutant: a cancellation is never seen
CtxNever(r) == FALSE

Ctx(r) == run[r].ctxDone
CallOK(r) == ConnFree /\ ~Ctx(r)
CallFails(r) == Ctx(r) \/ (ConnFree /\ faults < env.faults)
TxCallFails(r) == Ctx(r) \/ faults < env.faults
Charge(r) == faults' = IF Ctx(r) THEN faults ELSE faults + 1

(***************************************************************************)
(* RefreshUserConcurrent, the coordinating goroutine (ingest.go:67-235).   *)
(***************************************************************************)
Quiescent(r) ==
    /\ run[r].pc \in {"idle", "returned"}
    /\ \A w \in Workers : wk[r][w].pc \in {"idle", "exit", "failed"}

Return(r, err) ==
    [run EXCEPT ![r].pc = "returned", ![r].ret = [err |-> err, stats |-> run[r].stats]]

\* mutant: the worker count is used as asked for
CoerceWorkersNot(workers) == workers

\* ingest.go:68-70: if workers <= 0 { workers = 1 }
CoerceWorkers(workers) == IF workers <= 0 THEN 1 ELSE workers

\* mutant: the empty list of games is queued like any other
NoGamesNever(owned) == FALSE

\* ingest.go:77: if len(owned) == 0
NoGames(owned) == Len(owned) = 0

\* ingest.go:67-86: coerce workers, GetOwnedGames, the empty case, ttl and now
Start(r) ==
    /\ r \in env.slots
    /\ started < env.runs
    /\ Quiescent(r)
    /\ r > 1 => run[r - 1].pc # "idle"
    /\ started' = started + 1
    /\ wk' = [wk EXCEPT ![r] = [w \in Workers |-> IdleWorker]]
    /\ \E steamid \in Users, workers \in env.workers :
         LET base == [IdleRun EXCEPT !.steamid = steamid,
                                    !.workers = CoerceWorkers(workers)]
         IN  \/ run' = [run EXCEPT ![r] = [base EXCEPT !.pc = "returned",
                                             !.ret = [err |-> Err("GetOwnedGames", 0),
                                                      stats |-> ZeroStats]]]
             \/ \E owned \in env.owned :
                  LET st == [ZeroStats EXCEPT !.Owned = Len(owned)]
                  IN  run' = [run EXCEPT ![r] =
                          IF NoGames(owned)
                          THEN [base EXCEPT !.pc = "returned", !.stats = st,
                                            !.ret = [err |-> NoErr, stats |-> st]]
                          ELSE [base EXCEPT !.pc = "enqueue", !.stats = st, !.owned = owned,
                                            !.i = 1, !.now = clock]]
    /\ UNCHANGED <<clock, dbVars, tx, faults, outside, ingestLog>>

\* mutant: an entry exactly one TTL old still counts as fresh
GateSkipAtTTL(c, now, ttl) ==
    /\ c.err = NoErr
    /\ c.achCount.Valid
    /\ c.achCount.V = 0
    /\ c.checkedAt.Valid
    /\ now - c.checkedAt.V <= ttl

\* ingest.go:98: the cache-gate condition on the result c of GetGameSchemaCache
GateSkip(c, now, ttl) ==
    /\ c.err = NoErr
    /\ c.achCount.Valid
    /\ c.achCount.V = 0
    /\ c.checkedAt.Valid
    /\ now - c.checkedAt.V < ttl

\* ingest.go:99-103: skip or enqueue owned[i], given the cache read c
Gate(r, c) ==
    LET g == run[r].owned[run[r].i]
        skip == GateSkip(c, run[r].now, SchemaTTL)
    IN  run' = [run EXCEPT
                  ![r].stats.SkippedCached = IF skip THEN @ + 1 ELSE @,
                  ![r].jobs = IF skip THEN @ ELSE Append(@, g),
                  ![r].i = @ + 1,
                  ![r].gate = Append(@, [AppID |-> g.AppID, c |-> c, skipped |-> skip])]

\* ingest.go:91-104: one iteration of the enqueue loop
EnqueueStep(r) ==
    /\ run[r].pc = "enqueue"
    /\ IF run[r].i > Len(run[r].owned) \/ Ctx(r)
       THEN /\ run' = [run EXCEPT ![r].pc = "close"]
            /\ UNCHANGED faults
       ELSE \/ /\ CallOK(r)
               /\ Gate(r, GetGameSchemaCache(run[r].owned[run[r].i].AppID))
               /\ UNCHANGED faults
            \/ /\ ConnFree /\ faults < env.faults
               /\ Gate(r, [err |-> Err("GetGameSchemaCache", 0), achCount |-> Null,
                           checkedAt |-> Null])
               /\ faults' = faults + 1
    /\ UNCHANGED <<clock, dbVars, tx, wk, started, outside, ingestLog>>

\* ingest.go:105-113: close(jobs), stats.Queued, start the workers
CloseJobs(r) ==
    /\ run[r].pc = "close"
    /\ run' = [run EXCEPT ![r].pc = "join", ![r].stats.Queued = Len(run[r].jobs)]
    /\ wk' = [wk EXCEPT ![r] = [w \in Workers |->
                 IF w <= run[r].workers THEN [wk[r][w] EXCEPT !.pc = "loop"] ELSE wk[r][w]]]
    /\ UNCHANGED <<clock, dbVars, tx, faults, started, outside, ingestLog>>

\* ingest.go:226: go func() { wg.Wait(); close(done) }()
WaitGroup(r) ==
    /\ run[r].pc \in {"join", "returned"}
    /\ ~run[r].done
    /\ \E w \in Workers : wk[r][w].pc # "idle"
    /\ \A w \in Workers : wk[r][w].pc \in {"idle", "exit", "failed"}
    /\ run' = [run EXCEPT ![r].done = TRUE]
    /\ UNCHANGED <<clock, dbVars, tx, wk, faults, started, outside, ingestLog>>

\* ingest.go:227-234: the select takes any one of its ready cases
Join(r) ==
    /\ run[r].pc = "join"
    /\ \/ /\ run[r].done
          /\ run' = Return(r, NoErr)
       \/ /\ run[r].errs # <<>>
          /\ run' = [Return(r, Head(run[r].errs)) EXCEPT ![r].errs = Tail(@)]
       \/ /\ Ctx(r)
          /\ run' = Return(r, ErrCanceled)
    /\ UNCHANGED <<clock, dbVars, tx, wk, faults, started, outside, ingestLog>>

\* the caller's context is cancelled (client gone, timeout, handler returned)
Cancel(r) ==
    /\ run[r].pc # "idle"
    /\ ~Quiescent(r)
    /\ ~Ctx(r)
    /\ run' = [run EXCEPT ![r].ctxDone = TRUE]
    /\ UNCHANGED <<clock, dbVars, tx, wk, faults, started, outside, ingestLog>>

Tick ==
    /\ clock < MaxClock
    /\ clock' = clock + 1
    /\ UNCHANGED <<dbVars, tx, run, wk, faults, started, outside, ingestLog>>


(***************************************************************************)
(* The worker goroutines (ingest.go:112-221).                              *)
(***************************************************************************)
\* errs <- err, or drop it when the buffer is full (ingest.go:142-145 and alike)
SendErr(r, e) ==
    [run EXCEPT ![r].errs = IF Len(@) < run[r].workers THEN Append(@, e) ELSE @]

\* ingest.go:122-127: the count written back after a failed schema fetch
PreservedCount(c) ==
    IF c.err = NoErr /\ c.achCount.Valid THEN c.achCount.V ELSE 0

\* ingest.go:169-175: every schema name false, overlaid with the player states
RECURSIVE Overlay(_, _)
Overlay(m, states) ==
    IF states = <<>> THEN m
    ELSE Overlay([n \in DOMAIN m \cup {Head(states).APIName} |->
                     IF n = Head(states).APIName THEN Head(states).Achieved ELSE m[n]],
                 Tail(states))

\* mutant: a capability the player states do not mention counts as achieved
AchievedMapDefaultTrue(defs, states) ==
    Overlay([n \in {defs[i].APIName : i \in 1..Len(defs)} |-> TRUE], states)

AchievedMap(defs, states) ==
    Overlay([n \in {defs[i].APIName : i \in 1..Len(defs)} |-> FALSE], states)

\* ingest.go:178-181
ApiList(defs) == [i \in 1..Len(defs) |-> defs[i].APIName]

\* ingest.go:211: the SnapshotInsert IngestOneGame builds from the worker's arguments
\* and hands to InsertSnapshot
WorkerInsert(r, w) ==
    IngestOneGame(run[r].steamid, wk[r][w].g.AppID, ApiList(wk[r][w].defs),
                  AchievedMap(wk[r][w].defs, wk[r][w].states))

\* ingest.go:177-191: the totals and hashes the worker computes for the comparison
Precompute(appid, defs, achievedMap) ==
    LET apilist == ApiList(defs)
        items == BuildSnapshotAchievements(achievedMap)
    IN  [totalAvail |-> Len(apilist),
         totalDone |-> Cardinality({n \in DOMAIN achievedMap : achievedMap[n]}),
         catHash |-> CatalogHash(appid, apilist),
         stateHash |-> StateHash(appid, items)]

\* the worker's own totals and hashes for its current job
WorkerPrecompute(r, w) ==
    Precompute(wk[r][w].g.AppID, wk[r][w].defs,
               AchievedMap(wk[r][w].defs, wk[r][w].states))

\* mutant: a received job stays in the channel
ReceiveKeeps(jobs) == jobs

\* ingest.go:114: `range jobs` hands the first buffered job to one receiver
Receive(jobs) == Tail(jobs)

\* ingest.go:114-118: take the next job and fetch its schema
WorkerTake(r, w) ==
    /\ wk[r][w].pc = "loop"
    /\ IF run[r].jobs = <<>>
       THEN /\ wk' = [wk EXCEPT ![r][w].pc = "exit"]
            /\ UNCHANGED run
       ELSE LET g == Head(run[r].jobs)
                taking == [run EXCEPT ![r].jobs = Receive(@), ![r].taken = @ \cup {g.AppID},
                                      ![r].calls = @ \cup {<<"GetSchemaForGame", g.AppID>>}]
            IN  /\ \/ /\ wk' = [wk EXCEPT ![r][w] =
                                  [IdleWorker EXCEPT !.pc = "errCacheRead", !.g = g]]
                      /\ run' = [taking EXCEPT ![r].fetchErr = @ \cup {g.AppID}]
                   \/ /\ ~Ctx(r)
                      /\ run' = taking
                      /\ \E resp \in env.schemas[g.AppID] :
                           wk' = [wk EXCEPT ![r][w] =
                                    [IdleWorker EXCEPT !.pc = "cacheSet", !.g = g,
                                                       !.defs = resp.defs,
                                                       !.gameName = resp.gameName]]
    /\ UNCHANGED <<clock, dbVars, tx, faults, started, outside, ingestLog>>

\* ingest.go:123: the cache read inside the failure branch
WorkerErrCacheRead(r, w) ==
    /\ wk[r][w].pc = "errCacheRead"
    /\ \/ /\ CallOK(r)
          /\ wk' = [wk EXCEPT ![r][w].pc = "errCacheWrite",
                              ![r][w].cnt = PreservedCount(GetGameSchemaCache(wk[r][w].g.AppID))]
          /\ UNCHANGED faults
       \/ /\ CallFails(r)
          /\ wk' = [wk EXCEPT ![r][w].pc = "errCacheWrite",
                              ![r][w].cnt = PreservedCount([err |-> Err("GetGameSchemaCache", w),
                                                            achCount |-> Null,
                                                            checkedAt |-> Null])]
          /\ Charge(r)
    /\ UNCHANGED <<clock, dbVars, tx, run, started, outside, ingestLog>>

\* mutant: a failed schema fetch ends the worker
ReturnAfterFetchError == "exit"

\* ingest.go:121, 133: `_ =` drops the error of UpdateGameSchemaCache; the run
\* remembers (history only) the games whose cache write failed other than by
\* cancellation
CacheWriteFailed(r, w) ==
    [run EXCEPT ![r].cacheErr = IF Ctx(r) THEN @ ELSE @ \cup {wk[r][w].g.AppID}]

\* ingest.go:130: continue with the next job
AfterFetchError == "loop"

\* ingest.go:121-130: the cache write of the failure branch, its error dropped
WorkerErrCacheWrite(r, w) ==
    /\ wk[r][w].pc = "errCacheWrite"
    /\ \/ /\ CallOK(r)
          /\ games' = UpdateGameSchemaCache(wk[r][w].g.AppID, wk[r][w].cnt, run[r].now)
          /\ UNCHANGED <<faults, run>>
       \/ /\ CallFails(r)
          /\ UNCHANGED games
          /\ Charge(r)
          /\ run' = CacheWriteFailed(r, w)
    /\ wk' = [wk EXCEPT ![r][w].pc = AfterFetchError]
    /\ UNCHANGED <<clock, achievement_catalog, snapshots, snapshot_achievements, seq, tx,
                   started, outside, ingestLog>>

\* mutant: a game with achievements goes from the cache write to the player states
AfterCacheSetSkipsUpserts(defs) == IF Len(defs) = 0 THEN "loop" ELSE "fetchStates"

\* ingest.go:136-141: no achievements, next job; otherwise on to UpsertGame
AfterCacheSet(defs) == IF Len(defs) = 0 THEN "loop" ELSE "upsertGame"

\* ingest.go:133-138: the cache write after a successful fetch, its error dropped
WorkerCacheSet(r, w) ==
    /\ wk[r][w].pc = "cacheSet"
    /\ \/ /\ CallOK(r)
          /\ games' = UpdateGameSchemaCache(wk[r][w].g.AppID, Len(wk[r][w].defs), run[r].now)
          /\ UNCHANGED <<faults, run>>
       \/ /\ CallFails(r)
          /\ UNCHANGED games
          /\ Charge(r)
          /\ run' = CacheWriteFailed(r, w)
    /\ wk' = [wk EXCEPT ![r][w].pc = AfterCacheSet(wk[r][w].defs)]
    /\ UNCHANGED <<clock, achievement_catalog, snapshots, snapshot_achievements, seq, tx,
                   started, outside, ingestLog>>

\* ingest.go:141-147
WorkerUpsertGame(r, w) ==
    /\ wk[r][w].pc = "upsertGame"
    /\ \/ /\ CallOK(r)
          /\ games' = UpsertGame([AppID |-> wk[r][w].g.AppID,
                                  Name |-> firstNonEmpty(wk[r][w].gameName, wk[r][w].g.Name)])
          /\ wk' = [wk EXCEPT ![r][w].pc = "upsertDefs"]
          /\ UNCHANGED <<run, faults>>
       \/ /\ CallFails(r)
          /\ run' = SendErr(r, Err("UpsertGame", w))
          /\ wk' = [wk EXCEPT ![r][w].pc = "failed"]
          /\ Charge(r)
          /\ UNCHANGED games
    /\ UNCHANGED <<clock, achievement_catalog, snapshots, snapshot_achievements, seq, tx,
                   started, outside, ingestLog>>

\* ingest.go:148-163
WorkerUpsertDefs(r, w) ==
    LET achDefs == [i \in 1..Len(wk[r][w].defs) |->
                       [AppID |-> wk[r][w].g.AppID, APIName |-> wk[r][w].defs[i].APIName]]
    IN  /\ wk[r][w].pc = "upsertDefs"
        /\ \/ /\ CallOK(r)
              /\ DefsForeignKeyOK(achDefs)
              /\ achievement_catalog' = UpsertAchievementDefs(achDefs)
              /\ wk' = [wk EXCEPT ![r][w].pc = "fetchStates"]
              /\ UNCHANGED <<run, faults>>
           \/ /\ CallFails(r) \/ (ConnFree /\ ~DefsForeignKeyOK(achDefs))
              /\ run' = SendErr(r, Err("UpsertAchievementDefs", w))
              /\ wk' = [wk EXCEPT ![r][w].pc = "failed"]
              /\ IF ConnFree /\ ~DefsForeignKeyOK(achDefs) THEN UNCHANGED faults ELSE Charge(r)
              /\ UNCHANGED achievement_catalog
        /\ UNCHANGED <<clock, games, snapshots, snapshot_achievements, seq, tx, started, outside, ingestLog>>

\* ingest.go:166-194: player states (an error gives no states), then Checked++
WorkerFetchStates(r, w) ==
    /\ wk[r][w].pc = "fetchStates"
    /\ \/ wk' = [wk EXCEPT ![r][w].pc = "compare", ![r][w].states = <<>>]
       \/ /\ ~Ctx(r)
          /\ \E states \in env.states[wk[r][w].g.AppID] :
               wk' = [wk EXCEPT ![r][w].pc = "compare", ![r][w].states = states]
    /\ run' = [run EXCEPT ![r].stats.Checked = @ + 1,
                           ![r].calls = @ \cup {<<"GetPlayerAchievements", wk[r][w].g.AppID>>}]
    /\ UNCHANGED <<clock, dbVars, tx, faults, started, outside, ingestLog>>

\* ingest.go:197-208
WorkerCompare(r, w) ==
    LET pre == WorkerPrecompute(r, w)
    IN  /\ wk[r][w].pc = "compare"
        /\ \/ /\ CallOK(r)
              /\ IF unchangedAgainstLatest(run[r].steamid, wk[r][w].g.AppID, pre.totalDone,
                                           pre.totalAvail, pre.catHash, pre.stateHash)
                 THEN /\ run' = [run EXCEPT ![r].stats.Skipped = @ + 1]
                      /\ wk' = [wk EXCEPT ![r][w].pc = "loop"]
                 ELSE /\ wk' = [wk EXCEPT ![r][w].pc = "ingest"]
                      /\ UNCHANGED run
              /\ UNCHANGED faults
           \/ /\ CallFails(r)
              /\ run' = SendErr(r, Err("GetLatestSnapshots", w))
              /\ wk' = [wk EXCEPT ![r][w].pc = "failed"]
              /\ Charge(r)
        /\ UNCHANGED <<clock, dbVars, tx, started, outside, ingestLog>>


(***************************************************************************)
(* ingest.go:211-219: IngestOneGame, that is InsertSnapshot, step by step. *)
(***************************************************************************)
LogIngest(r, w, id) ==
    ingestLog \cup {[SteamID |-> run[r].steamid, AppID |-> wk[r][w].g.AppID,
                     apinames |-> ApiList(wk[r][w].defs),
                     achieved |-> AchievedMap(wk[r][w].defs, wk[r][w].states),
                     id |-> id]}

Owns(r, w) == tx.open /\ tx.owner = <<r, w>>

\* the tables after the transaction ended in state e, the connection released
EndTx(e) ==
    /\ snapshots' = e.snapshots
    /\ snapshot_achievements' = e.snapshot_achievements
    /\ seq' = e.seq
    /\ tx' = NoTx

\* InsertSnapshot returns 0, err after rolling back; the worker reports err and returns
Abort(r, w, op) ==
    /\ EndTx(Rollback(tx))
    /\ UNCHANGED ingestLog
    /\ run' = SendErr(r, Err(op, w))
    /\ wk' = [wk EXCEPT ![r][w].pc = "failed"]
    /\ Charge(r)

\* sqlite_repo.go:99-102: BeginTx takes the connection
WorkerBeginTx(r, w) ==
    /\ wk[r][w].pc = "ingest"
    /\ \/ /\ CallOK(r)
          /\ tx' = [open |-> TRUE, owner |-> <<r, w>>, snapshots |-> snapshots,
                    snapshot_achievements |-> snapshot_achievements, seq |-> seq,
                    id |-> 0, k |-> 1]
          /\ wk' = [wk EXCEPT ![r][w].pc = "txHeader"]
          /\ UNCHANGED <<run, faults, ingestLog>>
       \/ /\ CallFails(r)
          /\ UNCHANGED ingestLog
          /\ run' = SendErr(r, Err("BeginTx", w))
          /\ wk' = [wk EXCEPT ![r][w].pc = "failed"]
          /\ Charge(r)
          /\ UNCHANGED tx
    /\ UNCHANGED <<clock, dbVars, started, outside>>

\* sqlite_repo.go:104-111: the header insert (FOREIGN KEY (appid) REFERENCES games)
WorkerTxHeader(r, w) ==
    /\ wk[r][w].pc = "txHeader"
    /\ Owns(r, w)
    /\ \/ /\ ~Ctx(r)
          /\ HasGame(wk[r][w].g.AppID)
          /\ tx' = InsertHeader(tx, WorkerInsert(r, w), clock)
          /\ wk' = [wk EXCEPT ![r][w].pc = "txSelect"]
          /\ UNCHANGED <<snapshots, snapshot_achievements, seq, run, faults, ingestLog>>
       \/ /\ TxCallFails(r)
          /\ Abort(r, w, "InsertSnapshot.header")
    /\ UNCHANGED <<clock, games, achievement_catalog, started, outside>>

\* sqlite_repo.go:114-123: the id of the new or existing row
WorkerTxSelect(r, w) ==
    /\ wk[r][w].pc = "txSelect"
    /\ Owns(r, w)
    /\ \/ /\ ~Ctx(r)
          /\ tx' = [tx EXCEPT !.id = SelectID(tx, WorkerInsert(r, w))]
          /\ wk' = [wk EXCEPT ![r][w].pc =
                       IF Len(WorkerInsert(r, w).Achievements) > 0 THEN "txRows"
                       ELSE "txCommit"]
          /\ UNCHANGED <<snapshots, snapshot_achievements, seq, run, faults, ingestLog>>
       \/ /\ TxCallFails(r)
          /\ Abort(r, w, "InsertSnapshot.id")
    /\ UNCHANGED <<clock, games, achievement_catalog, started, outside>>

\* sqlite_repo.go:126-144: one state row (the statement is prepared with the first)
WorkerTxRow(r, w) ==
    LET in == WorkerInsert(r, w)
        a == in.Achievements[tx.k]
    IN  /\ wk[r][w].pc = "txRows"
        /\ Owns(r, w)
        /\ \/ /\ ~Ctx(r)
              /\ AchievementForeignKeyOK(in, a)
              /\ tx' = [InsertAchievement(tx, in, a) EXCEPT !.k = @ + 1]
              /\ wk' = [wk EXCEPT ![r][w].pc =
                           IF tx.k = Len(in.Achievements) THEN "txCommit" ELSE "txRows"]
              /\ UNCHANGED <<snapshots, snapshot_achievements, seq, run, faults, ingestLog>>
           \/ /\ ~Ctx(r)
              /\ ~AchievementForeignKeyOK(in, a)
              /\ EndTx(Rollback(tx))
              /\ UNCHANGED ingestLog
              /\ run' = SendErr(r, Err("InsertSnapshot.row.fk", w))
              /\ wk' = [wk EXCEPT ![r][w].pc = "failed"]
              /\ UNCHANGED faults
           \/ /\ TxCallFails(r)
              /\ Abort(r, w, "InsertSnapshot.row")
        /\ UNCHANGED <<clock, games, achievement_catalog, started, outside>>

\* sqlite_repo.go:146-149 and ingest.go:218-219: commit, then Updated++ and Snapshots++
WorkerTxCommit(r, w) ==
    /\ wk[r][w].pc = "txCommit"
    /\ Owns(r, w)
    /\ \/ /\ ~Ctx(r)
          /\ EndTx(Commit(tx))
          /\ ingestLog' = LogIngest(r, w, tx.id)
          /\ run' = [run EXCEPT ![r].stats.Updated = @ + 1, ![r].stats.Snapshots = @ + 1]
          /\ wk' = [wk EXCEPT ![r][w].pc = "loop"]
          /\ UNCHANGED faults
       \/ /\ TxCallFails(r)
          /\ Abort(r, w, "InsertSnapshot.commit")
    /\ UNCHANGED <<clock, games, achievement_catalog, started, outside>>

(***************************************************************************)
(* The HTTP layer (routes.go): the refresh handlers around a run.          *)
(***************************************************************************)
\* SELECT last_refresh_at FROM throttle_gate WHERE steamid = ?
GetLastRefreshAt(steamid) ==
    IF \E t \in throttle_gate : t.steamid = steamid
    THEN [err |-> NoErr,
          last |-> (CHOOSE t \in throttle_gate : t.steamid = steamid).last_refresh_at]
    ELSE [err |-> ErrNoRows, last |-> 0]

\* INSERT INTO throttle_gate ... ON CONFLICT(steamid) DO UPDATE SET last_refresh_at
SetLastRefreshNow(steamid, now) ==
    {t \in throttle_gate : t.steamid # steamid} \cup
        {[steamid |-> steamid, last_refresh_at |-> now]}

\* routes.go:70-84: the gate's answer to the lookup result g at time now: 429
\* throttled, 500 lookup failed, 0 go on.  (A stored time is never the zero time:
\* the table holds only what SetLastRefreshNow wrote from time.Now.)
ThrottleGate(g, now) ==
    IF ThrottleWindow > 0
    THEN IF g.err = NoErr
         THEN IF ThrottleWindow - (now - g.last) > 0 THEN 429 ELSE 0
         ELSE IF g.err # ErrNoRows THEN 500 ELSE 0
    ELSE 0

Answer(r, kind, steamid, out) ==
    req' = [req EXCEPT ![r] = IF out = 0
                              THEN [pc |-> "run", kind |-> kind, steamid |-> steamid, status |-> 0]
                              ELSE [pc |-> "done", kind |-> kind, steamid |-> steamid,
                                    status |-> out]]

\* a request may take slot r: the slot's last request was answered, its run is over
SlotFree(r) ==
    /\ r \in env.slots
    /\ req[r].pc \in {"idle", "done"}
    /\ Quiescent(r)
    /\ started < env.runs

\* routes.go:60-84: POST /api/refresh/:steamid up to and including the throttle gate
Refresh(r) ==
    /\ SlotFree(r)
    /\ ConnFree
    /\ \E steamid \in Users :
         \/ /\ Answer(r, "api", steamid, ThrottleGate(GetLastRefreshAt(steamid), clock))
            /\ UNCHANGED faults
         \/ /\ faults < env.faults
            /\ Answer(r, "api", steamid,
                      ThrottleGate([err |-> Err("GetLastRefreshAt", 0), last |-> 0], clock))
            /\ faults' = faults + 1
    /\ run' = [run EXCEPT ![r] = IdleRun]
    /\ UNCHANGED <<clock, dbVars, tx, wk, started, env, call, ingestLog, throttle_gate, cmp>>

\* routes.go:127-136: POST /ui/refresh up to the call of RefreshUserConcurrent
UIRefresh(r) ==
    /\ SlotFree(r)
    /\ \E steamid \in Users : Answer(r, "ui", steamid, 0)
    /\ run' = [run EXCEPT ![r] = IdleRun]
    /\ UNCHANGED <<clock, dbVars, tx, wk, faults, started, env, call, ingestLog, throttle_gate, cmp>>

\* routes.go:88, 137: the handler calls RefreshUserConcurrent
Serve(r) ==
    /\ req[r].pc = "run"
    /\ run[r].pc = "idle"
    /\ Start(r)

\* mutant: the throttle mark is written whatever the run returned
MarksAlways(kind, err) == kind = "api"

\* routes.go:88-94: only the API handler, and only past `if err != nil { return }`,
\* reaches SetLastRefreshNow
Marks(kind, err) == kind = "api" /\ err = NoErr

\* routes.go:89-109, 138-141: the handler's answer once RefreshUserConcurrent returned
Respond(r) ==
    LET err == run[r].ret.err
        done(status) == req' = [req EXCEPT ![r].pc = "done", ![r].status = status]
    IN  /\ req[r].pc = "run"
        /\ run[r].pc = "returned"
        /\ IF Marks(req[r].kind, err)
           THEN \/ /\ CallOK(r)
                   /\ throttle_gate' = SetLastRefreshNow(req[r].steamid, clock)
                   /\ done(200)
                   /\ UNCHANGED faults
                \/ /\ CallFails(r)
                   /\ UNCHANGED throttle_gate
                   /\ done(500)
                   /\ Charge(r)
           ELSE /\ done(IF err = NoErr THEN 200 ELSE 500)
                /\ UNCHANGED <<throttle_gate, faults>>
        /\ UNCHANGED <<clock, dbVars, tx, run, wk, started, env, call, ingestLog, cmp>>

(***************************************************************************)
(* DiffSnapshotAchievements (db/hashutil.go:83-127) and the comparison row *)
(* of package compare (BuildRow, CSVHeader, ToCSV).                        *)
(***************************************************************************)
\* hashutil.go:84-90: toMap, a later element of the list overwrites an earlier one
ToMap(in) ==
    [api \in {in[i].APIName : i \in 1..Len(in)} |->
        LET last == CHOOSE i \in 1..Len(in) :
                       /\ in[i].APIName = api
                       /\ \A j \in (i + 1)..Len(in) : in[j].APIName # api
        IN  in[last].Achieved]

\* mutant: an achievement held in both snapshots counts as newly earned
DiffEarnedIgnoresPrev(prev, curr) ==
    LET pm == ToMap(prev)
        cm == ToMap(curr)
        added == {api \in DOMAIN cm : api \notin DOMAIN pm}
        removed == {api \in DOMAIN pm : api \notin DOMAIN cm}
        newly == {api \in DOMAIN pm : api \in DOMAIN cm /\ cm[api]}
        lost == {api \in DOMAIN pm : api \in DOMAIN cm /\ pm[api] /\ ~cm[api]}
    IN  [Added |-> SortStrings(SetToSeq(added)),
         Removed |-> SortStrings(SetToSeq(removed)),
         NewlyEarned |-> SortStrings(SetToSeq(newly)),
         Lost |-> SortStrings(SetToSeq(lost))]

\* the four lists are collected by ranging over a map, in whatever order, and sorted
DiffSnapshotAchievements(prev, curr) ==
    LET pm == ToMap(prev)
        cm == ToMap(curr)
        added == {api \in DOMAIN cm : api \notin DOMAIN pm}
        removed == {api \in DOMAIN pm : api \notin DOMAIN cm}
        newly == {api \in DOMAIN pm : api \in DOMAIN cm /\ ~pm[api] /\ cm[api]}
        lost == {api \in DOMAIN pm : api \in DOMAIN cm /\ pm[api] /\ ~cm[api]}
    IN  [Added |-> SortStrings(SetToSeq(added)),
         Removed |-> SortStrings(SetToSeq(removed)),
         NewlyEarned |-> SortStrings(SetToSeq(newly)),
         Lost |-> SortStrings(SetToSeq(lost))]

\* part_003:87-92: pct, a float64 on the 0..100 scale; kept to the four decimals
\* ToCSV prints, as an integer number of 1/10000 (rounded to nearest)
pct(done, total) ==
    IF total <= 0 THEN 0 ELSE (done * 2000000 + total) \div (2 * total)

\* mutant: a previous snapshot with no achievement at all counts as complete
BuildRowEmptyIsComplete(prev, curr, diff) ==
    LET PrevDone == IF prev.Valid THEN prev.V.total_done ELSE 0
        PrevTotal == IF prev.Valid THEN prev.V.total_available ELSE 0
        PrevPct == IF prev.Valid THEN pct(prev.V.total_done, prev.V.total_available) ELSE 0
        CurrPct == pct(curr.total_done, curr.total_available)
        WasCompleted == prev.Valid /\ prev.V.total_done = prev.V.total_available
    IN  [SteamID |-> curr.steamid, AppID |-> curr.appid,
         PrevTakenAt |-> IF prev.Valid THEN NotNull(prev.V.taken_at) ELSE Null,
         CurrTakenAt |-> curr.taken_at,
         PrevDone |-> PrevDone, PrevTotal |-> PrevTotal,
         CurrDone |-> curr.total_done, CurrTotal |-> curr.total_available,
         DeltaDone |-> curr.total_done - PrevDone,
         DeltaTotal |-> curr.total_available - PrevTotal,
         PrevPct |-> PrevPct, CurrPct |-> CurrPct, DeltaPct |-> CurrPct - PrevPct,
         WasCompleted |-> WasCompleted,
         CompletedNow |-> curr.total_done = curr.total_available /\ curr.total_available > 0,
         NewContent |-> curr.total_available - PrevTotal > 0,
         Regression |-> WasCompleted /\ curr.total_available > curr.total_done,
         Added |-> diff.Added, Removed |-> diff.Removed,
         NewlyEarned |-> diff.NewlyEarned, Lost |-> diff.Lost]

\* part_003:42-85: BuildRow; prev is a *db.Snapshot, nil when there is no previous
\* snapshot. The counts are those of stored snapshots, far from the int range.
BuildRow(prev, curr, diff) ==
    LET PrevDone == IF prev.Valid THEN prev.V.total_done ELSE 0
        PrevTotal == IF prev.Valid THEN prev.V.total_available ELSE 0
        PrevPct == IF prev.Valid THEN pct(prev.V.total_done, prev.V.total_available) ELSE 0
        CurrPct == pct(curr.total_done, curr.total_available)
        WasCompleted == /\ prev.Valid
                        /\ prev.V.total_done = prev.V.total_available
                        /\ prev.V.total_available > 0
    IN  [SteamID |-> curr.steamid, AppID |-> curr.appid,
         PrevTakenAt |-> IF prev.Valid THEN NotNull(prev.V.taken_at) ELSE Null,
         CurrTakenAt |-> curr.taken_at,
         PrevDone |-> PrevDone, PrevTotal |-> PrevTotal,
         CurrDone |-> curr.total_done, CurrTotal |-> curr.total_available,
         DeltaDone |-> curr.total_done - PrevDone,
         DeltaTotal |-> curr.total_available - PrevTotal,
         PrevPct |-> PrevPct, CurrPct |-> CurrPct, DeltaPct |-> CurrPct - PrevPct,
         WasCompleted |-> WasCompleted,
         CompletedNow |-> curr.total_done = curr.total_available /\ curr.total_available > 0,
         NewContent |-> curr.total_available - PrevTotal > 0,
         Regression |-> WasCompleted /\ curr.total_available > curr.total_done,
         Added |-> diff.Added, Removed |-> diff.Removed,
         NewlyEarned |-> diff.NewlyEarned, Lost |-> diff.Lost]

\* fmt.Sprintf("%d", n)
Sprintd(n) == IF n < 0 THEN <<"-">> \o FormatInt(-n) ELSE FormatInt(n)

\* fmt.Sprintf("%.4f", x) of a value kept in 1/10000
Sprintf4(x) ==
    LET a == IF x < 0 THEN -x ELSE x
        frac == a % 10000
    IN  (IF x < 0 THEN <<"-">> ELSE <<>>) \o FormatInt(a \div 10000) \o <<".">>
        \o <<Digit(frac \div 1000), Digit((frac \div 100) % 10), Digit((frac \div 10) % 10),
             Digit(frac % 10)>>

\* t.UTC().Format(time.RFC3339) of clock tick t: digits, "T" and "Z", the date left out
FormatRFC3339(t) == <<"T">> \o FormatInt(t) \o <<"Z">>

\* a steamid or a column name, text without separators, as one piece of output
Text(s) == <<s>>

\* part_003:95-104
CSVHeader ==
    <<Text("steamid"), Text("appid"),
      Text("prev_done"), Text("prev_total"), Text("prev_pct"), Text("prev_taken_at"),
      Text("curr_done"), Text("curr_total"), Text("curr_pct"), Text("curr_taken_at"),
      Text("delta_done"), Text("delta_total"), Text("delta_pct"),
      Text("completed_now"), Text("was_completed"), Text("regression"), Text("new_content"),
      Text("added"), Text("removed"), Text("newly_earned"), Text("lost")>>

\* part_003:137-142
boolStr(b) == IF b THEN Text("true") ELSE Text("false")

\* part_003:144-154: the names joined by commas, nothing quoted
RECURSIVE strJoin(_)
strJoin(xs) ==
    IF Len(xs) = 0 THEN <<>>
    ELSE IF Len(xs) = 1 THEN xs[1]
    ELSE strJoin(SubSeq(xs, 1, Len(xs) - 1)) \o <<",">> \o xs[Len(xs)]

\* part_003:107-135
ToCSV(r) ==
    <<Text(r.SteamID),
      Sprintd(r.AppID),
      Sprintd(r.PrevDone),
      Sprintd(r.PrevTotal),
      Sprintf4(r.PrevPct),
      IF r.PrevTakenAt.Valid THEN FormatRFC3339(r.PrevTakenAt.V) ELSE <<>>,
      Sprintd(r.CurrDone),
      Sprintd(r.CurrTotal),
      Sprintf4(r.CurrPct),
      FormatRFC3339(r.CurrTakenAt),
      Sprintd(r.DeltaDone),
      Sprintd(r.DeltaTotal),
      Sprintf4(r.DeltaPct),
      boolStr(r.CompletedNow),
      boolStr(r.WasCompleted),
      boolStr(r.Regression),
      boolStr(r.NewContent),
      strJoin(r.Added),
      strJoin(r.Removed),
      strJoin(r.NewlyEarned),
      strJoin(r.Lost)>>

\* ingest.go:338-347: the columns joined by commas, nothing quoted
RECURSIVE joinCSV(_)
joinCSV(cols) ==
    IF Len(cols) = 0 THEN <<>>
    ELSE IF Len(cols) = 1 THEN cols[1]
    ELSE joinCSV(SubSeq(cols, 1, Len(cols) - 1)) \o <<",">> \o cols[Len(cols)]

\* fmt.Fprintln(w, line)
Fprintln(w, line) == w \o line \o <<"\n">>

\* ingest.go:328-332: the loop over the rows
RECURSIVE WriteRows(_, _)
WriteRows(w, rows) ==
    IF rows = <<>> THEN w
    ELSE WriteRows(Fprintln(w, joinCSV(ToCSV(Head(rows)))), Tail(rows))

\* ingest.go:323-334: WriteCSV into a writer that accepts everything; the result is
\* what was written
WriteCSV(rows) == WriteRows(Fprintln(<<>>, joinCSV(CSVHeader)), rows)

(***************************************************************************)
(* BuildComparisonForGame (ingest.go:274-300), the reader of the snapshots *)
(* of one (steamid, appid), and the repository queries it makes.           *)
(***************************************************************************)
\* sqlite_repo.go:220-249: the rows of one snapshot, ORDER BY apiname ASC, each
\* carrying the id it was asked for
GetSnapshotAchievements(snapshotID) ==
    LET rows == {x \in snapshot_achievements : x.snapshot_id = snapshotID}
        out == SetToSeq({[SnapshotID |-> snapshotID, APIName |-> x.apiname,
                          Achieved |-> x.achieved] : x \in rows})
    IN  SortByAPIName(out)

\* sqlite_repo.go:254-276: qIDs, the ids of the two newest snapshots
PairIDs(steamid, appid) ==
    LET top == GetLatestSnapshots(steamid, appid, 2)
    IN  [i \in 1..Len(top) |-> top[i].id]

\* ingest.go:284-299: prevSnap and currSnap, the diff of the two row lists, the row
CmpRow(c) ==
    LET prevSnap == IF Len(c.snaps) > 1 THEN NotNull(c.snaps[2]) ELSE Null
        currSnap == c.snaps[1]
        diff == DiffSnapshotAchievements(c.prevAch, c.currAch)
    IN  [c EXCEPT !.pc = "done", !.ok = TRUE, !.diff = diff,
                  !.row = BuildRow(prevSnap, currSnap, diff)]

\* BuildComparisonForGame returns (Row{}, false, err)
CmpFail(what) ==
    /\ ConnFree
    /\ faults < env.faults
    /\ faults' = faults + 1
    /\ cmp' = [cmp EXCEPT !.pc = "done", !.ok = FALSE, !.err = Err(what, cmp.appid)]

\* ingest.go:274-289: entry, GetLatestSnapshots(ctx, steamid, appid, 2), prevSnap
\* and currSnap
CmpGetLatest ==
    /\ cmp.pc \in {"idle", "done"}
    /\ ConnFree
    /\ \E steamid \in Users, appid \in Apps :
         \/ /\ LET snaps == GetLatestSnapshots(steamid, appid, 2)
                IN  cmp' = [IdleCmp EXCEPT !.steamid = steamid, !.appid = appid,
                                          !.snaps = snaps,
                                          !.pc = IF Len(snaps) = 0 THEN "done" ELSE "pair"]
            /\ UNCHANGED faults
         \/ /\ faults < env.faults
            /\ faults' = faults + 1
            /\ cmp' = [IdleCmp EXCEPT !.steamid = steamid, !.appid = appid, !.pc = "done",
                                      !.err = Err("GetLatestSnapshots", appid)]
    /\ UNCHANGED <<clock, dbVars, tx, run, wk, started, env, call, ingestLog, throttle_gate, req>>

\* ingest.go:292 and sqlite_repo.go:253-280: GetLatestSnapshotAchievementsPair up to
\* and including the qIDs query
CmpPairIDs ==
    /\ cmp.pc = "pair"
    /\ \/ /\ ConnFree
          /\ LET ids == PairIDs(cmp.steamid, cmp.appid)
             IN  cmp' = IF Len(ids) = 0
                        THEN CmpRow([cmp EXCEPT !.ids = ids])
                        ELSE [cmp EXCEPT !.ids = ids, !.pc = "curr"]
          /\ UNCHANGED faults
       \/ CmpFail("qIDs")
    /\ UNCHANGED <<clock, dbVars, tx, run, wk, started, env, call, ingestLog, throttle_gate, req>>

\* sqlite_repo.go:282-289: curr = GetSnapshotAchievements(ids[0]); with one id the
\* pair is (nil, curr) and BuildComparisonForGame goes on to the diff and the row
CmpCurr ==
    /\ cmp.pc = "curr"
    /\ \/ /\ ConnFree
          /\ LET got == [cmp EXCEPT !.currAch = GetSnapshotAchievements(cmp.ids[1])]
             IN  cmp' = IF Len(cmp.ids) = 1 THEN CmpRow(got) ELSE [got EXCEPT !.pc = "prev"]
          /\ UNCHANGED faults
       \/ CmpFail("GetSnapshotAchievements")
    /\ UNCHANGED <<clock, dbVars, tx, run, wk, started, env, call, ingestLog, throttle_gate, req>>

\* sqlite_repo.go:290-294 and ingest.go:293-299: prev = GetSnapshotAchievements(ids[1]),
\* then the diff of (prevAch, currAch) and the row of (prevSnap, currSnap)
CmpPrev ==
    /\ cmp.pc = "prev"
    /\ \/ /\ ConnFree
          /\ cmp' = CmpRow([cmp EXCEPT !.prevAch = GetSnapshotAchievements(cmp.ids[2])])
          /\ UNCHANGED faults
       \/ CmpFail("GetSnapshotAchievements")
    /\ UNCHANGED <<clock, dbVars, tx, run, wk, started, env, call, ingestLog, throttle_gate, req>>

BuildComparisonForGame == CmpGetLatest \/ CmpPairIDs \/ CmpCurr \/ CmpPrev

(***************************************************************************)
(* The pure functions called on their own: `call` holds the arguments of   *)
(* one call and, once it returned, its result.                             *)
(***************************************************************************)
Returns(fn, out) ==
    /\ call.pc = "called"
    /\ call.fn = fn
    /\ call' = [call EXCEPT !.pc = "returned", !.out = out]
    /\ UNCHANGED <<clock, dbVars, tx, run, wk, faults, started, env, ingestLog,
                   throttle_gate, req, cmp>>

CallBuildRow ==
    Returns("BuildRow", BuildRow(call.in.prev, call.in.curr, call.in.diff))

CallDiffSnapshotAchievements ==
    Returns("DiffSnapshotAchievements", DiffSnapshotAchievements(call.in.prev, call.in.curr))

\* the function applied to a list and to a permutation of it
CallCatalogHash ==
    Returns("CatalogHash", <<CatalogHash(call.in.appid, call.in.list),
                             CatalogHash(call.in.appid, call.in.perm)>>)

CallStateHash ==
    Returns("StateHash", <<StateHash(call.in.appid, call.in.list),
                           StateHash(call.in.appid, call.in.perm)>>)

CallBuildSnapshotAchievements ==
    Returns("BuildSnapshotAchievements",
            BuildSnapshotAchievementsRange(call.in.state, call.in.keys))

CallWriteCSV ==
    Returns("WriteCSV", WriteCSV(call.in.rows))

(***************************************************************************)
(* Specifications.                                                         *)
(***************************************************************************)
WorkerStep(r, w) ==
    \/ WorkerTake(r, w)
    \/ WorkerErrCacheRead(r, w)
    \/ WorkerErrCacheWrite(r, w)
    \/ WorkerCacheSet(r, w)
    \/ WorkerUpsertGame(r, w)
    \/ WorkerUpsertDefs(r, w)
    \/ WorkerFetchStates(r, w)
    \/ WorkerCompare(r, w)
    \/ WorkerBeginTx(r, w)
    \/ WorkerTxHeader(r, w)
    \/ WorkerTxSelect(r, w)
    \/ WorkerTxRow(r, w)
    \/ WorkerTxCommit(r, w)

AllQuiet == \A q \in Runs : Quiescent(q)

\* Spec: one refresh of a user owning up to two games, by a pool of workers, with
\* repository failures and cancellation.
Init ==
    /\ InitProgram
    /\ call = NoCall
    /\ env = [runs |-> 1,
              slots |-> {1},
              workers |-> 0..MaxWorkers,
              faults |-> MaxFaults,
              owned |-> {<<>>, <<Game1>>, <<Game1, Game2>>},
              schemas |-> [a \in Apps |->
                             {[defs |-> <<>>, gameName |-> ""],
                              [defs |-> <<Def(NameA)>>, gameName |-> "One"]}],
              states |-> [a \in Apps |-> {<<>>, <<Ach(NameA, TRUE)>>}]]

Next ==
    \E r \in Runs :
       \/ Start(r)
       \/ EnqueueStep(r)
       \/ CloseJobs(r)
       \/ WaitGroup(r)
       \/ Join(r)
       \/ Cancel(r)
       \/ \E w \in Workers : WorkerStep(r, w)

Spec == Init /\ [][Next]_vars

\* SpecHistory: refreshes of one game served one after the other, time passing
\* between them, the game's schema and the player's states changing at will.
InitHistory ==
    /\ InitProgram
    /\ call = NoCall
    /\ env = [runs |-> MaxRuns,
              slots |-> {1},
              workers |-> {1},
              faults |-> 1,
              owned |-> {<<Game1>>},
              schemas |-> [a \in Apps |->
                             {[defs |-> <<>>, gameName |-> ""],
                              [defs |-> <<Def(NameA)>>, gameName |-> "One"],
                              [defs |-> <<Def(NameASp)>>, gameName |-> ""]}],
              states |-> [a \in Apps |->
                             {<<>>, <<Ach(NameA, TRUE)>>, <<Ach(NameB, TRUE)>>}]]

NextHistory ==
    \/ AllQuiet /\ Tick
    \/ \E r \in Runs :
         \/ AllQuiet /\ Start(r)
         \/ EnqueueStep(r)
         \/ CloseJobs(r)
         \/ WaitGroup(r)
         \/ Join(r)
         \/ \E w \in Workers : WorkerStep(r, w)

SpecHistory == InitHistory /\ [][NextHistory]_vars

\* runs in sequence while the remote schema of the game loses a definition: the
\* schema is [a, b] or [a], the player state is empty or names both a and b
InitSchemaChange ==
    /\ InitProgram
    /\ call = NoCall
    /\ env = [runs |-> 2,
              slots |-> {1},
              workers |-> {1},
              faults |-> 0,
              owned |-> {<<Game1>>},
              schemas |-> [a \in Apps |->
                             {[defs |-> <<Def(NameA), Def(NameB)>>, gameName |-> "One"],
                              [defs |-> <<Def(NameA)>>, gameName |-> "One"]}],
              states |-> [a \in Apps |->
                             {<<>>, <<Ach(NameA, TRUE), Ach(NameB, TRUE)>>}]]

SpecSchemaChange == InitSchemaChange /\ [][NextHistory]_vars


\* SpecRace: two refreshes of the same user and game in progress at once.
InitRace ==
    /\ InitProgram
    /\ call = NoCall
    /\ env = [runs |-> 2,
              slots |-> {1, 2},
              workers |-> {1},
              faults |-> 1,
              owned |-> {<<Game1>>},
              schemas |-> [a \in Apps |->
                             {[defs |-> <<Def(NameA)>>, gameName |-> "One"],
                              [defs |-> <<Def(NameASp)>>, gameName |-> ""]}],
              states |-> [a \in Apps |-> {<<>>, <<Ach(NameA, TRUE)>>}]]

NextRace ==
    \E r \in Runs :
       \/ Start(r)
       \/ EnqueueStep(r)
       \/ CloseJobs(r)
       \/ WaitGroup(r)
       \/ Join(r)
       \/ \E w \in Workers : WorkerStep(r, w)

SpecRace == InitRace /\ [][NextRace]_vars


\* SpecRepeat: refreshes of one game served one after the other, in alternating
\* slots so that the refresh before the latest stays on record; the schema is
\* fixed and the player's states change at will.
InitRepeat ==
    /\ InitProgram
    /\ call = NoCall
    /\ env = [runs |-> MaxRuns + 1,
              slots |-> {1, 2},
              workers |-> {1},
              faults |-> 0,
              owned |-> {<<Game1>>},
              schemas |-> [a \in Apps |-> {[defs |-> <<Def(NameA)>>, gameName |-> "One"]}],
              states |-> [a \in Apps |-> {<<>>, <<Ach(NameA, TRUE)>>}]]

NextRepeat ==
    \E r \in Runs :
       \/ AllQuiet /\ r = (started % 2) + 1 /\ Start(r)
       \/ EnqueueStep(r)
       \/ CloseJobs(r)
       \/ WaitGroup(r)
       \/ Join(r)
       \/ \E w \in Workers : WorkerStep(r, w)

SpecRepeat == InitRepeat /\ [][NextRepeat]_vars

\* SpecThrottle: refresh requests of one user, through the API and the UI, two
\* at a time at most, time passing at will.
InitThrottle ==
    /\ InitProgram
    /\ call = NoCall
    /\ env = [runs |-> 2,
              slots |-> {1, 2},
              workers |-> {1},
              faults |-> 1,
              owned |-> {<<Game1>>},
              schemas |-> [a \in Apps |-> {[defs |-> <<Def(NameA)>>, gameName |-> "One"]}],
              states |-> [a \in Apps |-> {<<>>}]]

NextThrottle ==
    \/ AllQuiet /\ Tick
    \/ \E r \in Runs :
         \/ Refresh(r)
         \/ UIRefresh(r)
         \/ Serve(r)
         \/ Respond(r)
         \/ EnqueueStep(r)
         \/ CloseJobs(r)
         \/ WaitGroup(r)
         \/ Join(r)
         \/ \E w \in Workers : WorkerStep(r, w)

SpecThrottle == InitThrottle /\ [][NextThrottle]_vars

\* SpecCompare: successive refreshes of one game whose player state changes, and
\* comparisons of that game built while they run.
InitCompare ==
    /\ InitProgram
    /\ call = NoCall
    /\ env = [runs |-> 2,
              slots |-> {1},
              workers |-> {1},
              faults |-> 1,
              owned |-> {<<Game1>>},
              schemas |-> [a \in Apps |-> {[defs |-> <<Def(NameA)>>, gameName |-> "One"]}],
              states |-> [a \in Apps |-> {<<>>, <<Ach(NameA, TRUE)>>}]]

NextCompare ==
    \/ AllQuiet /\ Tick
    \/ BuildComparisonForGame
    \/ \E r \in Runs :
         \/ AllQuiet /\ Start(r)
         \/ EnqueueStep(r)
         \/ CloseJobs(r)
         \/ WaitGroup(r)
         \/ Join(r)
         \/ \E w \in Workers : WorkerStep(r, w)

SpecCompare == InitCompare /\ [][NextCompare]_vars

\* SpecUnit: one call of a pure function, its arguments drawn from small sets.
Names == {NameA, NameB, NameASp}

SeqsUpTo(S, n) == UNION {[1..k -> S] : k \in 0..n}

Bijections(n) == {p \in [1..n -> 1..n] : \A i, j \in 1..n : p[i] = p[j] => i = j}

Reorderings(s) == {[i \in 1..Len(s) |-> s[p[i]]] : p \in Bijections(Len(s))}

\* the rows of one snapshot: one row per apiname (PRIMARY KEY (snapshot_id, apiname))
Vectors(id) ==
    {v \in SeqsUpTo([SnapshotID : {id}, APIName : Names, Achieved : BOOLEAN], MaxLen) :
        \A i, j \in 1..Len(v) : v[i].APIName = v[j].APIName => i = j}

\* a stored snapshot with the given counts
CountsSnapshot(id, done, total, at) ==
    [id |-> id, steamid |-> "u1", appid |-> 1, total_done |-> done, total_available |-> total,
     catalog_hash |-> sha256Hex(<<>>), state_hash |-> sha256Hex(<<>>), taken_at |-> at]

NoDiff == [Added |-> <<>>, Removed |-> <<>>, NewlyEarned |-> <<>>, Lost |-> <<>>]

BuildRowInputs ==
    {[prev |-> prev, curr |-> curr, diff |-> NoDiff] :
        prev \in {Null} \cup {NotNull(CountsSnapshot(1, d, t, 0)) : d, t \in 0..MaxTotal},
        curr \in {CountsSnapshot(2, d, t, 1) : d, t \in 0..MaxTotal}}

DiffInputs == {[prev |-> prev, curr |-> curr] : prev \in Vectors(1), curr \in Vectors(2)}

CatalogHashInputs ==
    UNION {{[appid |-> appid, list |-> list, perm |-> perm] : perm \in Reorderings(list)} :
              appid \in Apps, list \in SeqsUpTo(Names, MaxLen)}

StateHashInputs ==
    UNION {{[appid |-> 1, list |-> list, perm |-> perm] : perm \in Reorderings(list)} :
              list \in SeqsUpTo([APIName : Names, Achieved : BOOLEAN], MaxLen)}

BuildSnapshotAchievementsInputs ==
    UNION {{[state |-> state, keys |-> keys] : keys \in Reorderings(SetToSeq(DOMAIN state))} :
              state \in UNION {[D -> BOOLEAN] : D \in SUBSET Names}}

\* rows as BuildRow makes them, with none, one and two achievements added
CSVRows ==
    {BuildRow(prev, CountsSnapshot(2, 1, 2, 1), [NoDiff EXCEPT !.Added = added]) :
        prev \in {Null, NotNull(CountsSnapshot(1, 1, 1, 0))},
        added \in {<<>>, <<NameA>>, <<NameA, NameB>>}}

WriteCSVInputs == {[rows |-> rows] : rows \in SeqsUpTo(CSVRows, 2)}

Called(fn, inputs) == {[pc |-> "called", fn |-> fn, in |-> in, out |-> <<>>] : in \in inputs}

InitUnit ==
    /\ InitProgram
    /\ env = [runs |-> 0, slots |-> {}, workers |-> {1}, faults |-> 0, owned |-> {<<>>},
              schemas |-> [a \in Apps |-> {}], states |-> [a \in Apps |-> {}]]
    /\ call \in Called("BuildRow", BuildRowInputs)
                \cup Called("DiffSnapshotAchievements", DiffInputs)
                \cup Called("CatalogHash", CatalogHashInputs)
                \cup Called("StateHash", StateHashInputs)
                \cup Called("BuildSnapshotAchievements", BuildSnapshotAchievementsInputs)
                \cup Called("WriteCSV", WriteCSVInputs)

NextUnit ==
    \/ CallBuildRow
    \/ CallDiffSnapshotAchievements
    \/ CallCatalogHash
    \/ CallStateHash
    \/ CallBuildSnapshotAchievements
    \/ CallWriteCSV

SpecUnit == InitUnit /\ [][NextUnit]_vars

\* SpecLive: one refresh of up to two games with any worker count asked for, no
\* repository failure and no cancellation; while some goroutine can run, one does.
InitLive ==
    /\ InitProgram
    /\ call = NoCall
    /\ env = [runs |-> 1,
              slots |-> {1},
              workers |-> (-1)..MaxWorkers,
              faults |-> 0,
              owned |-> {<<>>, <<Game1>>, <<Game1, Game2>>},
              schemas |-> [a \in Apps |->
                             {[defs |-> <<>>, gameName |-> ""],
                              [defs |-> <<Def(NameA)>>, gameName |-> "One"]}],
              states |-> [a \in Apps |-> {<<>>, <<Ach(NameA, TRUE)>>}]]

Coordinator(r) ==
    \/ Start(r)
    \/ EnqueueStep(r)
    \/ CloseJobs(r)
    \/ WaitGroup(r)
    \/ Join(r)

NextLive ==
    \E r \in Runs :
       \/ Coordinator(r)
       \/ \E w \in Workers : WorkerStep(r, w)

SpecLive == InitLive /\ [][NextLive]_vars /\ WF_vars(NextLive)

(***************************************************************************)
(* Properties.                                                             *)
(***************************************************************************)
KeyOf(s) == <<s.steamid, s.appid, s.catalog_hash, s.state_hash>>

RowsOf(table, id) == {x \in table : x.snapshot_id = id}

\* the SnapshotInsert of a logged IngestOneGame call
InsertOf(e) == IngestOneGame(e.SteamID, e.AppID, e.apinames, e.achieved)

\* C1: under any interleaving of refreshes and snapshot inserts, at most one
\* snapshot row exists per (steamid, appid, catalog_hash, state_hash), in the
\* table as in the view of the transaction writing to it.
C1_UniqueSnapshotKey ==
    /\ \A s, t \in snapshots : KeyOf(s) = KeyOf(t) => s = t
    /\ tx.open => \A s, t \in tx.snapshots : KeyOf(s) = KeyOf(t) => s = t

\* two refreshes of the same game both found no matching latest snapshot, both
\* inserted, and one row came of it
C1_Witness ==
    /\ run[1].stats.Updated = 1
    /\ run[2].stats.Updated = 1
    /\ wk[1][1].pc = "exit"
    /\ wk[2][1].pc = "exit"
    /\ Cardinality(snapshots) = 1

\* C2: IngestOneGame calls with identical inputs return the same snapshot id,
\* and exactly one snapshot row exists for their fingerprint tuple: the row with
\* the id returned.
C2_IngestIdempotent ==
    /\ \A e, f \in ingestLog :
         (e.SteamID = f.SteamID /\ e.AppID = f.AppID /\ e.apinames = f.apinames
            /\ e.achieved = f.achieved) => e.id = f.id
    /\ \A e \in ingestLog :
         /\ Cardinality({s \in snapshots : SameKey(s, InsertOf(e))}) = 1
         /\ \A s \in snapshots : SameKey(s, InsertOf(e)) => s.id = e.id

\* both refreshes called IngestOneGame with the same catalog and states, both
\* calls returned, and they returned one id for one row
C2_Witness ==
    /\ run[1].stats.Updated = 1
    /\ run[2].stats.Updated = 1
    /\ wk[1][1].pc = "exit"
    /\ wk[2][1].pc = "exit"
    /\ wk[1][1].defs = wk[2][1].defs
    /\ wk[1][1].states = wk[2][1].states
    /\ Cardinality(ingestLog) = 1
    /\ \E e \in ingestLog : \E s \in snapshots : s.id = e.id /\ SameKey(s, InsertOf(e))

\* C3: InsertSnapshot is atomic.  A header row is in the table only by a call that
\* returned its id, a state row only by a call that returned its snapshot's id
\* and carried that row; and every call that returned an id left its header and
\* all of its state rows.  A call that failed at any statement left nothing.
C3_InsertAtomic ==
    /\ \A s \in snapshots :
         \E e \in ingestLog : e.id = s.id /\ SameKey(s, InsertOf(e))
    /\ \A x \in snapshot_achievements :
         \E e \in ingestLog :
            /\ e.id = x.snapshot_id
            /\ e.AppID = x.appid
            /\ \E i \in 1..Len(InsertOf(e).Achievements) :
                 /\ InsertOf(e).Achievements[i].APIName = x.apiname
                 /\ InsertOf(e).Achievements[i].Achieved = x.achieved
    /\ \A e \in ingestLog :
         /\ \E s \in snapshots : s.id = e.id /\ SameKey(s, InsertOf(e))
         /\ \A i \in 1..Len(InsertOf(e).Achievements) :
              \E x \in snapshot_achievements :
                 /\ x.snapshot_id = e.id
                 /\ x.apiname = InsertOf(e).Achievements[i].APIName
                 /\ x.achieved = InsertOf(e).Achievements[i].Achieved

\* a commit failed after the header and a state row were written, the call
\* returned the error, and the tables are empty
C3_Witness ==
    /\ run[1].pc = "returned"
    /\ run[1].ret.err.op = "InsertSnapshot.commit"
    /\ Len(WorkerInsert(1, 1).Achievements) > 0
    /\ snapshots = {}
    /\ snapshot_achievements = {}

\* C4: a refresh never mutates or deletes a snapshot that already exists: every
\* step keeps each snapshot's header and leaves its set of state rows as it was.
C4_ExistingSnapshotsUntouched ==
    [][\A s \in snapshots :
          /\ s \in snapshots'
          /\ RowsOf(snapshot_achievements', s.id) = RowsOf(snapshot_achievements, s.id)]_vars

\* the skip condition as the queue phase is said to apply it to a cache read c
\* of a run that started at now
FreshZero(c, now) ==
    /\ c.err = NoErr
    /\ c.achCount.Valid /\ c.achCount.V = 0
    /\ c.checkedAt.Valid /\ now - c.checkedAt.V < SchemaTTL

Skipped(r) == {i \in 1..Len(run[r].gate) : run[r].gate[i].skipped}

\* C5: the queue phase skips a game exactly when the cache read succeeded with a
\* count of 0 checked less than the TTL before the run's start; a skipped game is
\* counted in SkippedCached and gets no schema or player-state call, and every
\* other game is enqueued.
C5_CacheGate ==
    \A r \in Runs :
       /\ run[r].stats.SkippedCached = Cardinality(Skipped(r))
       /\ \A i \in 1..Len(run[r].gate) :
            LET e == run[r].gate[i]
            IN  /\ e.skipped <=> FreshZero(e.c, run[r].now)
                /\ e.skipped =>
                     /\ e.AppID \notin run[r].taken
                     /\ \A j \in 1..Len(run[r].jobs) : run[r].jobs[j].AppID # e.AppID
                     /\ \A made \in run[r].calls : made[2] # e.AppID
                /\ ~e.skipped =>
                     \/ e.AppID \in run[r].taken
                     \/ \E j \in 1..Len(run[r].jobs) : run[r].jobs[j].AppID = e.AppID

\* a refresh returned having skipped its one game on a fresh zero count, with no
\* remote call for a game made
C5_Witness ==
    /\ run[1].pc = "returned"
    /\ run[1].ret.err = NoErr
    /\ run[1].ret.stats.SkippedCached = 1
    /\ run[1].ret.stats.Queued = 0
    /\ run[1].calls = {}
    /\ \E g \in games : g.appid = 1 /\ g.achievements_count = NotNull(0)

\* C6: when the schema fetch has failed for a game whose cache row holds a
\* non-zero count c, the cache write that follows leaves the count at c and sets
\* the checked-at time to the run's timestamp, and the worker goes on to its next job.
C6_FetchErrorKeepsCount ==
    [][\A r \in Runs : \A w \in Workers :
          \A g \in games :
             (/\ wk[r][w].pc = "errCacheWrite"
              /\ wk'[r][w].pc # "errCacheWrite"
              /\ g.appid = wk[r][w].g.AppID
              /\ g.achievements_count.Valid
              /\ g.achievements_count.V # 0)
             => /\ \E h \in games' :
                     /\ h.appid = g.appid
                     /\ h.achievements_count = g.achievements_count
                     /\ h.schema_checked_at = NotNull(run[r].now)
                /\ wk'[r][w].pc = "loop"]_vars

ZeroCount(table, appid) ==
    \E g \in table : g.appid = appid /\ g.achievements_count = NotNull(0)

\* C7: a failed schema fetch never forces the cached count to zero: after the
\* cache write that follows it the count is zero only if it was zero before.
C7_FetchErrorNeverZeroes ==
    [][\A r \in Runs : \A w \in Workers :
          (/\ wk[r][w].pc = "errCacheWrite"
           /\ wk'[r][w].pc # "errCacheWrite"
           /\ ZeroCount(games', wk[r][w].g.AppID))
          => ZeroCount(games, wk[r][w].g.AppID)]_vars

Enqueued(r) == {run[r].gate[i].AppID : i \in (1..Len(run[r].gate)) \ Skipped(r)}

\* C8: a schema fetch failure is never escalated.  A refresh that returned with
\* no worker stopped by a repository error and no cancellation returned nil, and
\* every game it enqueued was taken by a worker, whichever fetches failed.
C8_FetchErrorNotEscalated ==
    \A r \in Runs :
       (/\ run[r].pc = "returned"
        /\ run[r].owned # <<>>
        /\ ~run[r].ctxDone
        /\ \A w \in Workers : wk[r][w].pc # "failed")
       => /\ run[r].ret.err = NoErr
          /\ run[r].jobs = <<>>
          /\ run[r].taken = Enqueued(r)
          /\ run[r].fetchErr \subseteq run[r].taken

\* the schema fetch of game 1 failed, game 2 was processed to the end, and the
\* refresh returned nil
C8_Witness ==
    /\ run[1].pc = "returned"
    /\ run[1].ret.err = NoErr
    /\ run[1].fetchErr = {1}
    /\ run[1].taken = {1, 2}
    /\ run[1].ret.stats.Checked = 1
    /\ run[1].ret.stats.Updated = 1

PastFetchStates == {"compare", "ingest", "txHeader", "txSelect", "txRows", "txCommit"}

\* C9: a player-state fetch that fails or returns nothing, for a game with a
\* non-empty schema, does not fail the worker: the game counts as checked and
\* its state is every schema capability not achieved (done 0, available the size
\* of the schema), which is compared with the latest snapshot and, when they
\* differ, persisted.
C9_EmptyStatesAllFalse ==
    /\ [](\A r \in Runs : \A w \in Workers :
            (wk[r][w].pc \in PastFetchStates /\ wk[r][w].states = <<>>) =>
               LET in == WorkerInsert(r, w)
               IN  /\ run[r].stats.Checked >= 1
                   /\ in.TotalDone = 0
                   /\ in.TotalAvailable = Len(wk[r][w].defs)
                   /\ {in.Achievements[i].APIName : i \in 1..Len(in.Achievements)}
                        = {wk[r][w].defs[i].APIName : i \in 1..Len(wk[r][w].defs)}
                   /\ \A i \in 1..Len(in.Achievements) : ~in.Achievements[i].Achieved
                   /\ (wk[r][w].pc \in {"txSelect", "txRows", "txCommit"} /\ Owns(r, w)) =>
                         \E s \in tx.snapshots :
                            /\ SameKey(s, in)
                            /\ s.total_done = 0
                            /\ s.total_available = Len(wk[r][w].defs))
    /\ [][\A r \in Runs : \A w \in Workers :
            /\ (wk[r][w].pc = "fetchStates" /\ wk'[r][w].pc # "fetchStates") =>
                  /\ wk'[r][w].pc = "compare"
                  /\ run'[r].stats.Checked = run[r].stats.Checked + 1
                  /\ run'[r].errs = run[r].errs
            /\ (wk[r][w].pc = "compare" /\ wk[r][w].states = <<>>
                  /\ wk'[r][w].pc \notin {"compare", "failed"}) =>
                  IF unchangedAgainstLatest(run[r].steamid, wk[r][w].g.AppID, 0,
                                            Len(wk[r][w].defs),
                                            WorkerInsert(r, w).CatalogHash,
                                            WorkerInsert(r, w).StateHash)
                  THEN wk'[r][w].pc = "loop" /\ run'[r].stats.Skipped = run[r].stats.Skipped + 1
                  ELSE wk'[r][w].pc = "ingest"]_vars

\* the player states of a game with one capability came back empty, and the
\* all-false state was persisted as a snapshot with done 0 of 1
C9_Witness ==
    /\ wk[1][1].pc = "exit"
    /\ Len(wk[1][1].defs) = 1
    /\ wk[1][1].states = <<>>
    /\ run[1].stats.Checked = 1
    /\ run[1].stats.Updated = 1
    /\ \E s \in snapshots : s.appid = wk[1][1].g.AppID /\ s.total_done = 0
                              /\ s.total_available = 1
    /\ \E x \in snapshot_achievements : x.appid = wk[1][1].g.AppID /\ ~x.achieved

\* C10: whenever a worker was stopped by a repository error, the refresh returns
\* a non-nil error.
C10_WorkerErrorReturned ==
    \A r \in Runs :
       (run[r].pc = "returned" /\ \E w \in Workers : wk[r][w].pc = "failed")
       => run[r].ret.err # NoErr

\* C11: once a worker of a run has been stopped by a repository error, no step
\* of that run writes to the repository any more: the games, catalog, snapshot
\* and state tables stay as they are.
C11_NoWriteAfterHardError ==
    [][(\E w \in Workers : wk[1][w].pc = "failed")
          => UNCHANGED <<games, achievement_catalog, snapshots, snapshot_achievements>>]_vars

\* C12: a repository failure while updating the schema cache is a hard error:
\* a refresh in which a cache update failed returns a non-nil error.
C12_CacheWriteErrorReturned ==
    \A r \in Runs :
       (run[r].pc = "returned" /\ run[r].cacheErr # {}) => run[r].ret.err # NoErr

\* the item worker w of run r computed equals, in its four summary values, the
\* most recent snapshot of its user and game
SameAsLatest(r, w) ==
    LET in == WorkerInsert(r, w)
    IN  \E s \in snapshots :
           /\ s.steamid = in.SteamID /\ s.appid = in.AppID
           /\ \A t \in snapshots :
                (t.steamid = s.steamid /\ t.appid = s.appid /\ t # s) => Newer(s, t)
           /\ s.total_done = in.TotalDone
           /\ s.total_available = in.TotalAvailable
           /\ s.catalog_hash = in.CatalogHash
           /\ s.state_hash = in.StateHash

Inserting == {"ingest", "txHeader", "txSelect", "txRows", "txCommit"}

\* C13: for a checked item whose total done, total available, catalog
\* fingerprint and state fingerprint all equal the most recent snapshot's, the
\* worker increments Skipped and writes nothing; it attempts the snapshot insert
\* only when one of the four differs or there is no snapshot.
C13_UnchangedSkipsInsert ==
    /\ [][\A r \in Runs : \A w \in Workers :
            (wk[r][w].pc = "compare" /\ wk'[r][w].pc \notin {"compare", "failed"}) =>
               IF SameAsLatest(r, w)
               THEN /\ wk'[r][w].pc = "loop"
                    /\ run'[r].stats.Skipped = run[r].stats.Skipped + 1
                    /\ run'[r].stats.Updated = run[r].stats.Updated
                    /\ UNCHANGED <<dbVars, tx, ingestLog>>
               ELSE /\ wk'[r][w].pc = "ingest"
                    /\ run'[r].stats.Skipped = run[r].stats.Skipped]_vars
    /\ [](\A r \in Runs : \A w \in Workers :
            wk[r][w].pc \in Inserting => ~SameAsLatest(r, w))

\* the second refresh found the game as the first left it: it skipped the item
\* and the one snapshot is still the only one
C13_Witness ==
    /\ started = 2
    /\ run[1].pc = "returned"
    /\ run[1].ret.stats.Checked = 1
    /\ run[1].ret.stats.Skipped = 1
    /\ run[1].ret.stats.Updated = 0
    /\ Cardinality(snapshots) = 1
    /\ Cardinality(ingestLog) = 1

\* the slot of the refresh started last
LatestRun == ((started + 1) % 2) + 1

\* C14: a refresh that follows a successfully completed refresh of the same
\* user, the remote schema and player states being what that refresh saw, reports
\* Updated = 0 and counts every checked item as Skipped, whatever refreshes came
\* before.
C14_RepeatChangesNothing ==
    LET r == LatestRun
        q == 3 - LatestRun
    IN  (/\ started >= 2
         /\ run[q].pc = "returned" /\ run[q].ret.err = NoErr
         /\ run[r].pc = "returned" /\ run[r].ret.err = NoErr
         /\ run[q].fetchErr = {} /\ run[r].fetchErr = {}
         /\ run[q].ret.stats.Checked = 1 /\ run[r].ret.stats.Checked = 1
         /\ wk[r][1].defs = wk[q][1].defs
         /\ wk[r][1].states = wk[q][1].states)
        => /\ run[r].ret.stats.Updated = 0
           /\ run[r].ret.stats.Skipped = run[r].ret.stats.Checked

\* C15: the Updated counter, and the Snapshots counter with it, counts the
\* snapshot rows the run created: the step that ends a worker's insert adds to
\* both counters exactly the number of rows it added to the snapshot table.
C15_UpdatedCountsNewRows ==
    [][\A r \in Runs : \A w \in Workers :
          (wk[r][w].pc = "txCommit" /\ wk'[r][w].pc # "txCommit") =>
             /\ run'[r].stats.Updated - run[r].stats.Updated
                  = Cardinality(snapshots') - Cardinality(snapshots)
             /\ run'[r].stats.Snapshots = run'[r].stats.Updated]_vars

\* C16: a refresh whose context was cancelled during the queue phase, before
\* every owned game had been looked at, returns an error, never nil.
C16_CancelledRunReturnsError ==
    \A r \in Runs :
       (/\ run[r].pc = "returned"
        /\ run[r].ctxDone
        /\ run[r].owned # <<>>
        /\ run[r].i <= Len(run[r].owned))
       => run[r].ret.err # NoErr

\* C17: for a queued game whose schema fetch gave no capability, the step that
\* follows sets the game's cached count to 0 with the run's timestamp and does
\* nothing else: the game's name, the catalog, the snapshots and their rows stay
\* as they are, no remote call is made, no counter of Checked, Updated or Skipped
\* moves, and the worker takes its next job.
C17_EmptySchemaOnlyCaches ==
    [][\A r \in Runs : \A w \in Workers :
          (wk[r][w].pc = "cacheSet" /\ Len(wk[r][w].defs) = 0 /\ wk'[r][w].pc # "cacheSet") =>
             /\ \E g \in games' :
                  /\ g.appid = wk[r][w].g.AppID
                  /\ g.achievements_count = NotNull(0)
                  /\ g.schema_checked_at = NotNull(run[r].now)
                  /\ \A h \in games : h.appid = g.appid => h.name = g.name
             /\ \A h \in games : h.appid # wk[r][w].g.AppID => h \in games'
             /\ UNCHANGED <<achievement_catalog, snapshots, snapshot_achievements, tx, ingestLog>>
             /\ run'[r].calls = run[r].calls
             /\ run'[r].stats = run[r].stats
             /\ wk'[r][w].pc = "loop"]_vars

\* C18: the throttle mark changes only in the step in which the API handler
\* answers a refresh whose run returned nil, and then it becomes the time of that
\* step; no step of a run, no throttled request, no request whose run returned an
\* error and no UI request changes it.
C18_MarkOnlyAfterSuccess ==
    [][throttle_gate' # throttle_gate =>
         \E r \in Runs :
            /\ req[r].pc = "run" /\ req[r].kind = "api"
            /\ run[r].pc = "returned" /\ run[r].ret.err = NoErr
            /\ UNCHANGED <<run, wk>>
            /\ req'[r].pc = "done" /\ req'[r].status = 200
            /\ throttle_gate' = {[steamid |-> req[r].steamid, last_refresh_at |-> clock]}]_vars

\* the mark of a refresh that succeeded at time 0 is still the only one after a
\* later API request, past the window, whose run returned an error
C18_Witness ==
    /\ throttle_gate = {[steamid |-> "u1", last_refresh_at |-> 0]}
    /\ clock >= ThrottleWindow
    /\ \E r \in Runs :
          /\ req[r].pc = "done" /\ req[r].kind = "api" /\ req[r].status = 500
          /\ run[r].pc = "returned" /\ run[r].ret.err # NoErr
          /\ run[r].now >= ThrottleWindow

\* C19: with a throttle window W > 0, no run for a user is started by any
\* refresh request, API or UI, less than W after the time of the user's throttle
\* mark, the time the last successful refresh was recorded (refreshes in which no
\* worker was stopped by an error).
C19_NoRunWithinWindow ==
    [][\A r \in Runs :
          (/\ run[r].pc = "idle" /\ run'[r].pc # "idle"
           /\ faults = 0
           /\ \A q \in Runs : ~run[q].ctxDone) =>
             \A t \in throttle_gate :
                t.steamid = run'[r].steamid => clock - t.last_refresh_at >= ThrottleWindow]_vars

\* C20: the rows BuildComparisonForGame diffs are the rows of the snapshots whose
\* totals its record reports: the current rows belong to currSnap, the previous
\* rows to prevSnap, whatever snapshot insert is committed while it runs.
C20_DiffPairIsReportedPair ==
    (cmp.pc = "done" /\ cmp.ok) =>
       /\ cmp.ids = [i \in 1..Len(cmp.snaps) |-> cmp.snaps[i].id]
       /\ \A i \in 1..Len(cmp.currAch) : cmp.currAch[i].SnapshotID = cmp.snaps[1].id
       /\ \A i \in 1..Len(cmp.prevAch) :
             Len(cmp.snaps) = 2 /\ cmp.prevAch[i].SnapshotID = cmp.snaps[2].id

\* C21: for every previous snapshot, possibly absent, and every current snapshot
\* BuildRow yields deltas = current minus previous (an absent previous counting as
\* 0/0), was-complete = previous exists with total > 0 and done = total,
\* complete-now = current total > 0 and done = total, new-content = current total >
\* previous total, regression = was-complete and current total > current done.
C21_BuildRowFlags ==
    (call.pc = "returned" /\ call.fn = "BuildRow") =>
       LET prev == call.in.prev
           curr == call.in.curr
           row == call.out
           prevDone == IF prev.Valid THEN prev.V.total_done ELSE 0
           prevTotal == IF prev.Valid THEN prev.V.total_available ELSE 0
           was == prev.Valid /\ prevTotal > 0 /\ prevDone = prevTotal
       IN  /\ row.DeltaDone = curr.total_done - prevDone
           /\ row.DeltaTotal = curr.total_available - prevTotal
           /\ row.WasCompleted = was
           /\ row.CompletedNow = (curr.total_available > 0
                                    /\ curr.total_done = curr.total_available)
           /\ row.NewContent = (curr.total_available > prevTotal)
           /\ row.Regression = (was /\ curr.total_available > curr.total_done)

\* a row for a game that was complete and has lost an achievement
C21_Witness ==
    /\ call.pc = "returned" /\ call.fn = "BuildRow"
    /\ call.in.prev.Valid
    /\ call.out.WasCompleted /\ call.out.Regression /\ ~call.out.CompletedNow
    /\ call.out.DeltaDone < 0 /\ call.out.DeltaTotal = 0

Elements(list) == {list[i] : i \in 1..Len(list)}

Ascending(list) == \A i \in 1..(Len(list) - 1) : StrLess(list[i], list[i + 1])

Content(v) == {<<v[i].APIName, v[i].Achieved>> : i \in 1..Len(v)}

NamesIn(v) == {v[i].APIName : i \in 1..Len(v)}

\* C22: for any two state vectors DiffSnapshotAchievements returns Added = names in
\* curr and not in prev, Removed = names in prev and not in curr, NewlyEarned =
\* names in both, false then true, Lost = names in both, true then false; the four
\* lists are pairwise disjoint, each is ascending without duplicates, and two
\* vectors of the same content give four empty lists.
C22_DiffLists ==
    (call.pc = "returned" /\ call.fn = "DiffSnapshotAchievements") =>
       LET prev == Content(call.in.prev)
           curr == Content(call.in.curr)
           P == NamesIn(call.in.prev)
           C == NamesIn(call.in.curr)
           d == call.out
           lists == <<d.Added, d.Removed, d.NewlyEarned, d.Lost>>
       IN  /\ Elements(d.Added) = C \ P
           /\ Elements(d.Removed) = P \ C
           /\ Elements(d.NewlyEarned) = {n \in P \cap C : <<n, FALSE>> \in prev
                                                          /\ <<n, TRUE>> \in curr}
           /\ Elements(d.Lost) = {n \in P \cap C : <<n, TRUE>> \in prev
                                                   /\ <<n, FALSE>> \in curr}
           /\ \A i \in 1..4 : Ascending(lists[i])
           /\ \A i, j \in 1..4 : i # j => Elements(lists[i]) \cap Elements(lists[j]) = {}
           /\ prev = curr => d = NoDiff

\* prev = {b: false}, curr = <<b: true, a: false>>: a added, b newly earned
C22_Witness ==
    /\ call.pc = "returned" /\ call.fn = "DiffSnapshotAchievements"
    /\ Content(call.in.prev) = {<<NameB, FALSE>>}
    /\ call.in.curr = <<[SnapshotID |-> 2, APIName |-> NameB, Achieved |-> TRUE],
                        [SnapshotID |-> 2, APIName |-> NameA, Achieved |-> FALSE]>>
    /\ call.out = [Added |-> <<NameA>>, Removed |-> <<>>, NewlyEarned |-> <<NameB>>,
                   Lost |-> <<>>]

\* C23: CatalogHash and StateHash give the same fingerprint for a list and for any
\* permutation of it, and BuildSnapshotAchievements gives, whatever the order in
\* which the map is ranged over, the entries of the map in ascending name order.
C23_OrderIndependent ==
    call.pc = "returned" =>
       /\ call.fn \in {"CatalogHash", "StateHash"} => call.out[1] = call.out[2]
       /\ call.fn = "BuildSnapshotAchievements" =>
             LET state == call.in.state
                 out == call.out
             IN  /\ Len(out) = Cardinality(DOMAIN state)
                 /\ \A i \in 1..Len(out) :
                       /\ out[i].APIName \in DOMAIN state
                       /\ out[i].Achieved = state[out[i].APIName]
                 /\ \A i \in 1..(Len(out) - 1) : StrLess(out[i].APIName, out[i + 1].APIName)

\* fingerprints of a list of three and of a different order of it, and a map of
\* three entries ranged over in descending order
C23_Witness ==
    /\ call.pc = "returned"
    /\ \/ /\ call.fn = "StateHash"
          /\ Len(call.in.list) = MaxLen
          /\ call.in.perm # call.in.list
          /\ call.in.list[1].APIName # call.in.list[2].APIName
       \/ /\ call.fn = "CatalogHash"
          /\ call.in.list = <<NameB, NameA, NameASp>>
          /\ call.in.perm = <<NameASp, NameB, NameA>>
       \/ /\ call.fn = "BuildSnapshotAchievements"
          /\ call.in.keys = <<NameB, NameASp, NameA>>

\* text cut at every sep: the pieces between the separators
RECURSIVE SplitOn(_, _)
SplitOn(text, sep) ==
    IF \A k \in 1..Len(text) : text[k] # sep THEN <<text>>
    ELSE LET k == CHOOSE k \in 1..Len(text) :
                     text[k] = sep /\ \A j \in 1..(k - 1) : text[j] # sep
         IN  <<SubSeq(text, 1, k - 1)>> \o SplitOn(SubSeq(text, k + 1, Len(text)), sep)

\* the lines of an output, each closed by a newline
LinesOf(text) ==
    LET pieces == SplitOn(text, "\n")
    IN  IF pieces[Len(pieces)] = <<>> THEN SubSeq(pieces, 1, Len(pieces) - 1) ELSE pieces

\* C24: WriteCSV of n rows writes n + 1 lines, the header and then one line per
\* row in input order, and every data line has as many comma-separated fields as
\* the header, the fields of the row in the header's column order.
C24_CSVShape ==
    (call.pc = "returned" /\ call.fn = "WriteCSV") =>
       LET rows == call.in.rows
           lines == LinesOf(call.out)
       IN  /\ Len(lines) = Len(rows) + 1
           /\ lines[1] = joinCSV(CSVHeader)
           /\ \A i \in 1..Len(rows) :
                 /\ Len(SplitOn(lines[i + 1], ",")) = Len(CSVHeader)
                 /\ SplitOn(lines[i + 1], ",") = ToCSV(rows[i])

\* C25: a call of RefreshUserConcurrent whose GetOwnedGames answers with an empty
\* list returns at once, all counters zero and a nil error: the same step leaves
\* every table, the transaction and the fault count alone, starts no worker and
\* makes no further call, and nothing of the run moves afterwards.
C25_NoGamesReturnsAtOnce ==
    /\ [][\A r \in Runs :
            (/\ run[r].pc = "idle" /\ run'[r].pc # "idle"
             /\ run'[r].stats.Owned = 0
             /\ run'[r].ret.err = NoErr) =>
               /\ run'[r].pc = "returned"
               /\ run'[r].ret.stats = ZeroStats
               /\ run'[r].calls = {} /\ run'[r].gate = <<>> /\ run'[r].jobs = <<>>
               /\ \A w \in Workers : wk'[r][w].pc = "idle"
               /\ UNCHANGED <<dbVars, tx, faults, ingestLog>>]_vars
    /\ [][\A r \in Runs :
            (/\ run[r].pc = "returned"
             /\ run[r].stats.Owned = 0) => UNCHANGED <<run[r], wk[r]>>]_vars

\* a run that found no game has returned
C25_Witness ==
    \E r \in Runs :
       /\ run[r].pc = "returned"
       /\ run[r].owned = <<>>
       /\ run[r].ret = [err |-> NoErr, stats |-> ZeroStats]
       /\ started = 1

\* the enqueue loop of run r was left by `break enqueue` at item i
BrokeOff(r) ==
    /\ run[r].pc \in {"close", "join", "returned"}
    /\ run[r].i >= 1
    /\ run[r].i <= Len(run[r].owned)

\* the items the cache gate of run r put on the queue
QueuedItems(r) ==
    {run[r].gate[k].AppID : k \in {j \in 1..Len(run[r].gate) : ~run[r].gate[j].skipped}}

\* C26: when the enqueue loop sees the cancellation at an item, that step enqueues
\* and cache-checks nothing and leaves the queue as it is; no later item is ever
\* enqueued or cache-checked; Queued is the number of items enqueued before; and
\* these items are handed to the workers: each is in the queue or was taken by a
\* worker, no worker stops before the queue is empty.
C26_CancelStopsEnqueue ==
    /\ [][\A r \in Runs :
            (run[r].pc = "enqueue" /\ run[r].ctxDone /\ run[r].i <= Len(run[r].owned)) =>
               /\ run'[r].pc = "close"
               /\ run'[r].jobs = run[r].jobs
               /\ run'[r].gate = run[r].gate
               /\ run'[r].i = run[r].i
               /\ run'[r].stats = run[r].stats]_vars
    /\ [](\A r \in Runs :
            BrokeOff(r) =>
               /\ run[r].ctxDone
               /\ Len(run[r].gate) = run[r].i - 1
               /\ QueuedItems(r) = run[r].taken \cup {run[r].jobs[k].AppID : k \in 1..Len(run[r].jobs)}
               /\ run[r].pc # "close" => run[r].stats.Queued = Cardinality(QueuedItems(r))
               /\ \A w \in Workers : wk[r][w].pc # "failed"
               /\ (\E w \in Workers : wk[r][w].pc = "exit") => run[r].jobs = <<>>)

\* the loop broke off at the second game, the first was queued and taken
C26_Witness ==
    \E r \in Runs :
       /\ BrokeOff(r)
       /\ run[r].i = 2
       /\ run[r].pc = "returned"
       /\ run[r].ret.stats.Queued = 1
       /\ run[r].taken = {1}
       /\ \A w \in Workers : wk[r][w].pc \in {"idle", "exit"}

\* worker w of run r receives a job in this step
Takes(r, w) == wk[r][w].pc = "loop" /\ wk'[r][w].pc \notin {"loop", "exit"}

\* C27: the queue never holds more jobs than there are owned games (the capacity
\* of the channel, so that the enqueue loop never blocks); no worker runs while the
\* coordinator still enqueues or has not closed the queue; and a job is received
\* by one worker only: the step takes the head of the queue away, hands it to that
\* worker alone, and the game was not taken before.
C27_QueueBoundedAndShared ==
    /\ [](\A r \in Runs :
            /\ Len(run[r].jobs) <= Len(run[r].owned)
            /\ (run[r].pc = "enqueue" /\ run[r].i <= Len(run[r].owned)) =>
                  Len(run[r].jobs) < Len(run[r].owned)
            /\ run[r].pc \in {"enqueue", "close"} => \A w \in Workers : wk[r][w].pc = "idle"
            /\ \A w \in Workers : wk[r][w].pc # "idle" => run[r].pc \in {"join", "returned"})
    /\ [][\A r \in Runs : \A w \in Workers :
            Takes(r, w) =>
               /\ run[r].jobs # <<>>
               /\ wk'[r][w].g = Head(run[r].jobs)
               /\ run'[r].jobs = Tail(run[r].jobs)
               /\ Head(run[r].jobs).AppID \notin run[r].taken
               /\ \A j \in 1..Len(run'[r].jobs) : run'[r].jobs[j].AppID # Head(run[r].jobs).AppID
               /\ \A v \in Workers \ {w} : wk'[r][v] = wk[r][v]]_vars

\* two games were queued and each of the two workers received one of them
C27_Witness ==
    \E r \in Runs :
       /\ run[r].stats.Queued = 2
       /\ run[r].taken = {1, 2}
       /\ wk[r][1].g.AppID = 2
       /\ wk[r][2].g.AppID = 1

\* run r is over: it returned nil, its workers have all left their loop, the queue
\* is empty and every queued game was received
Finished(r) ==
    /\ run[r].pc = "returned"
    /\ run[r].ret.err = NoErr
    /\ run[r].jobs = <<>>
    /\ run[r].taken = QueuedItems(r)
    /\ run[r].ret.stats.Queued = Cardinality(QueuedItems(r))
    /\ \A w \in Workers : wk[r][w].pc = IF w <= run[r].workers THEN "exit" ELSE "idle"

\* C28: for any worker count asked for (0 or less counting as 1) and any number of
\* queued games, without persistence error and cancellation: at least one worker
\* is started, every queued game is received once, and the run that got its list
\* of games eventually has returned nil with all its workers out of their loop and
\* the queue drained, and stays so.
C28_DrainsAndReturns ==
    /\ [](\A r \in Runs :
            /\ run[r].pc # "idle" => run[r].workers >= 1
            /\ run[r].pc \in {"join", "returned"} /\ run[r].owned # <<>> =>
                  \A w \in Workers : (wk[r][w].pc # "idle") = (w <= run[r].workers)
            /\ \A w \in Workers : wk[r][w].pc # "failed")
    /\ [][\A r \in Runs : \A w \in Workers :
            Takes(r, w) => Head(run[r].jobs).AppID \notin run[r].taken]_vars
    /\ [][\A r \in Runs : Finished(r) => Finished(r)']_vars
    /\ (\E r \in Runs : run[r].pc \in {"enqueue", "close", "join"})
          ~> (\A r \in Runs : run[r].pc # "idle" => Finished(r))

\* asked for no worker at all, one worker went through two games and the run returned
C28_Witness ==
    \E r \in Runs :
       /\ Finished(r)
       /\ run[r].workers = 1
       /\ run[r].taken = {1, 2}
       /\ run[r].ret.stats.Checked = 2

\* the positions a worker can be at after one step from position pc, in the order
\* of ingest.go:114-220 for one job
StepsAfter(pc) ==
    CASE pc = "loop" -> {"errCacheRead", "cacheSet", "exit"}
      [] pc = "errCacheRead" -> {"errCacheWrite"}
      [] pc = "errCacheWrite" -> {"loop"}
      [] pc = "cacheSet" -> {"loop", "upsertGame"}
      [] pc = "upsertGame" -> {"upsertDefs", "failed"}
      [] pc = "upsertDefs" -> {"fetchStates", "failed"}
      [] pc = "fetchStates" -> {"compare"}
      [] pc = "compare" -> {"loop", "ingest", "failed"}
      [] pc = "ingest" -> {"txHeader", "failed"}
      [] pc = "txHeader" -> {"txSelect", "failed"}
      [] pc = "txSelect" -> {"txRows", "txCommit", "failed"}
      [] pc = "txRows" -> {"txRows", "txCommit", "failed"}
      [] pc = "txCommit" -> {"loop", "failed"}
      [] OTHER -> {}

PastCacheSet == {"upsertGame", "upsertDefs", "fetchStates"} \cup PastFetchStates

PastUpserts == {"fetchStates"} \cup PastFetchStates

\* C29: within one job the worker's steps run in the order of the code.  The cache
\* is written (or its write attempted) before the zero-achievement check sends
\* the worker on; the game's name and its whole catalog are in the tables before
\* the player states are fetched; Checked is incremented before the comparison;
\* and a snapshot is inserted for a game only by a worker for which the upserts
\* of the game's name and catalog have succeeded in this run.
C29_StepsInOrder ==
    /\ [][\A r \in Runs : \A w \in Workers :
            (wk[r][w].pc # "idle" /\ wk'[r][w] # wk[r][w]) =>
               /\ wk'[r][w].pc \in StepsAfter(wk[r][w].pc)
               /\ wk[r][w].pc # "loop" => wk'[r][w].g = wk[r][w].g
               /\ wk'[r][w].pc = "upsertGame" => wk[r][w].pc = "cacheSet"
               /\ wk[r][w].pc = "cacheSet" =>
                     \/ games' = UpdateGameSchemaCache(wk[r][w].g.AppID,
                                                       Len(wk[r][w].defs), run[r].now)
                     \/ games' = games /\ run' = CacheWriteFailed(r, w)]_vars
    /\ [](\A r \in Runs : \A w \in Workers :
            LET g == wk[r][w].g
                defs == wk[r][w].defs
            IN  /\ wk[r][w].pc \in PastCacheSet => Len(defs) > 0
                /\ wk[r][w].pc \in PastUpserts \ {"fetchStates"} =>
                      /\ <<"GetPlayerAchievements", g.AppID>> \in run[r].calls
                      /\ run[r].stats.Checked >= 1
                /\ wk[r][w].pc = "fetchStates" =>
                      <<"GetPlayerAchievements", g.AppID>> \notin run[r].calls
                /\ wk[r][w].pc \in PastUpserts =>
                      /\ HasGame(g.AppID)
                      /\ GameRow(g.AppID).name = firstNonEmpty(wk[r][w].gameName, g.Name)
                      /\ \A i \in 1..Len(defs) :
                            \E c \in achievement_catalog :
                               c.appid = g.AppID /\ c.apiname = defs[i].APIName
                /\ (tx.open /\ tx.owner = <<r, w>>) => wk[r][w].pc \in PastUpserts)
    /\ [](\A s \in snapshots :
            /\ HasGame(s.appid)
            /\ \E c \in achievement_catalog : c.appid = s.appid)

\* a worker committing the snapshot of a game whose name and catalog it upserted
C29_Witness ==
    \E r \in Runs : \E w \in Workers :
       /\ wk[r][w].pc = "txCommit"
       /\ GameRow(wk[r][w].g.AppID).name = "One"
       /\ run[r].stats.Checked = 2
       /\ \E s \in snapshots : s.appid # wk[r][w].g.AppID

\* unchangedAgainstLatest with the worker's own totals and hashes, asked of the
\* tables as the step leaves them
ComparesUnchanged(r, w) ==
    LET snaps == NewestFirst({s \in snapshots' : s.steamid = run[r].steamid
                                               /\ s.appid = wk[r][w].g.AppID}, 1)
        pre == WorkerPrecompute(r, w)
    IN  IF Len(snaps) = 0 THEN FALSE
        ELSE /\ snaps[1].total_done = pre.totalDone
             /\ snaps[1].total_available = pre.totalAvail
             /\ snaps[1].catalog_hash = pre.catHash
             /\ snaps[1].state_hash = pre.stateHash

\* worker w of run r returns from a successful IngestOneGame in this step
Ingested(r, w) == wk[r][w].pc = "txCommit" /\ wk'[r][w].pc = "loop"

\* the totals and hashes the worker compares with are those IngestOneGame hands to
\* InsertSnapshot, and the state hash is the hash of the vector handed over with it
SameTotalsAndHashes ==
    \A r \in Runs : \A w \in Workers :
       wk[r][w].pc \in {"compare", "ingest", "txHeader", "txSelect", "txRows", "txCommit"} =>
          /\ WorkerPrecompute(r, w).totalDone = WorkerInsert(r, w).TotalDone
          /\ WorkerPrecompute(r, w).totalAvail = WorkerInsert(r, w).TotalAvailable
          /\ WorkerPrecompute(r, w).catHash = WorkerInsert(r, w).CatalogHash
          /\ WorkerPrecompute(r, w).stateHash = WorkerInsert(r, w).StateHash
          /\ WorkerInsert(r, w).StateHash
                = StateHash(wk[r][w].g.AppID, WorkerInsert(r, w).Achievements)
          /\ Ascending([i \in 1..Len(WorkerInsert(r, w).Achievements) |->
                           WorkerInsert(r, w).Achievements[i].APIName])

\* after a successful IngestOneGame the snapshot it returned holds the totals and
\* hashes of the call
PersistedHeader(r, w) ==
    \E s \in snapshots' :
       /\ s.id = tx.id
       /\ s.steamid = run[r].steamid /\ s.appid = wk[r][w].g.AppID
       /\ s.total_done = WorkerInsert(r, w).TotalDone
       /\ s.total_available = WorkerInsert(r, w).TotalAvailable
       /\ s.catalog_hash = WorkerInsert(r, w).CatalogHash
       /\ s.state_hash = WorkerInsert(r, w).StateHash

\* ... and its state rows are the vector the state hash was computed over
PersistedRows(r, w) ==
    {[APIName |-> x.apiname, Achieved |-> x.achieved] :
        x \in {y \in snapshot_achievements' : y.snapshot_id = tx.id}}
      = Elements(WorkerInsert(r, w).Achievements)

\* every stored snapshot's state hash is the hash of the state rows stored with it,
\* read back in the order of their names
RowsMatchFingerprint ==
    \A s \in snapshots : s.state_hash = StateHash(s.appid, GetSnapshotAchievements(s.id))

\* what holds of the calls that created a snapshot row: header, rows and comparison
CreatedComparesUnchanged ==
    [][\A r \in Runs : \A w \in Workers :
          (Ingested(r, w) /\ seq' > seq) =>
             /\ PersistedHeader(r, w)
             /\ PersistedRows(r, w)
             /\ ComparesUnchanged(r, w)]_vars

\* C30: the totals and hashes the worker computes for the comparison are those
\* IngestOneGame persists for the same catalog and achieved map; the state rows
\* persisted with a snapshot are the vector its state hash was computed over; and
\* a snapshot that was just inserted compares as unchanged against the inputs
\* that produced it.
C30_PersistedAgreesWithFingerprint ==
    /\ []SameTotalsAndHashes
    /\ []RowsMatchFingerprint
    /\ CreatedComparesUnchanged

\* run r returned a nil error after its one worker checked one game and went
\* through the whole loop, and no run has started since
CompletedChecked(r) ==
    /\ started >= 1
    /\ r = LatestRun
    /\ AllQuiet
    /\ run[r].pc = "returned" /\ run[r].ret.err = NoErr
    /\ run[r].fetchErr = {}
    /\ run[r].ret.stats.Checked = 1
    /\ wk[r][1].pc = "exit"

\* C31: after a refresh that completed without error, the most recent snapshot of
\* the user and the checked game has the totals and fingerprints computed from
\* the schema and player state the run observed, whatever earlier runs stored.
C31_LatestIsWhatTheRunSaw ==
    \A r \in Runs : CompletedChecked(r) => SameAsLatest(r, 1)

\* run r has returned a nil error and every worker it started has finished
ReturnedNilAllFinished(r) ==
    /\ run[r].pc = "returned"
    /\ run[r].ret.err = NoErr
    /\ \A w \in Workers : wk[r][w].pc \in {"idle", "exit", "failed"}

\* the gate identity of a returned run that was not cancelled in the enqueue loop
GateIdentity ==
    \A r \in Runs :
       (run[r].pc = "returned" /\ ~BrokeOff(r)) =>
          run[r].ret.stats.Owned = run[r].ret.stats.Queued + run[r].ret.stats.SkippedCached

\* the parts of the worker identities that do not depend on every checked game
\* ending as updated or skipped
CheckedWithinQueued ==
    \A r \in Runs :
       ReturnedNilAllFinished(r) =>
          /\ run[r].ret.stats.Checked <= run[r].ret.stats.Queued
          /\ run[r].ret.stats.Snapshots = run[r].ret.stats.Updated

\* what holds of Checked = Updated + Skipped: the runs none of whose workers failed
CheckedSettledWithoutFailure ==
    \A r \in Runs :
       (ReturnedNilAllFinished(r) /\ \A w \in Workers : wk[r][w].pc # "failed") =>
          run[r].ret.stats.Checked = run[r].ret.stats.Updated + run[r].ret.stats.Skipped

\* C32: a run not cancelled during the cache gate returns Owned = Queued +
\* SkippedCached; a run that returns a nil error after all its workers finished
\* returns Checked = Updated + Skipped, Checked <= Queued and Snapshots = Updated.
C32_CounterIdentities ==
    /\ GateIdentity
    /\ CheckedWithinQueued
    /\ \A r \in Runs :
          ReturnedNilAllFinished(r) =>
             run[r].ret.stats.Checked = run[r].ret.stats.Updated + run[r].ret.stats.Skipped

\* the state rows stored with snapshot s
StateRows(s) == {x \in snapshot_achievements : x.snapshot_id = s.id}

\* C33: every snapshot the refresh path persisted has total_done <= total_available
\* and exactly one state row per definition of the fetched schema (as many state
\* rows as total_available), whatever the player-state response named.
C33_TotalsWithinSchema ==
    \A s \in snapshots :
       /\ s.total_done <= s.total_available
       /\ Cardinality(StateRows(s)) = s.total_available

\* the rows of games other than the one of appid are the same after the step
OtherGamesKept(appid) ==
    {x \in games : x.appid # appid} = {x \in games' : x.appid # appid}

\* the step is a successful UpsertGame of worker w of run r
UpsertedGame(r, w) == wk[r][w].pc = "upsertGame" /\ wk'[r][w].pc = "upsertDefs"

\* the step is a successful UpdateGameSchemaCache of worker w of run r
UpdatedCache(r, w) == wk[r][w].pc \in {"cacheSet", "errCacheWrite"} /\ games' # games

\* C34: the name and the schema cache share the games row without interference.
\* UpsertGame sets the name and leaves achievements_count and schema_checked_at as
\* they were (NULL in a new row); UpdateGameSchemaCache sets the two cache columns
\* and leaves the name of an existing row as it was, creating the row with an
\* empty name only when none exists; neither touches another game's row, and
\* there is one row per appid.
C34_NameAndCacheShareTheRow ==
    /\ [](\A x \in games : \A y \in games : x.appid = y.appid => x = y)
    /\ [][\A r \in Runs : \A w \in Workers :
            LET a == wk[r][w].g.AppID
            IN  /\ UpsertedGame(r, w) =>
                      /\ OtherGamesKept(a)
                      /\ \E n \in games' :
                            /\ n.appid = a
                            /\ n.name = firstNonEmpty(wk[r][w].gameName, wk[r][w].g.Name)
                            /\ n.achievements_count =
                                  IF HasGame(a) THEN GameRow(a).achievements_count ELSE Null
                            /\ n.schema_checked_at =
                                  IF HasGame(a) THEN GameRow(a).schema_checked_at ELSE Null
                /\ UpdatedCache(r, w) =>
                      /\ OtherGamesKept(a)
                      /\ \E n \in games' :
                            /\ n.appid = a
                            /\ n.name = IF HasGame(a) THEN GameRow(a).name ELSE ""
                            /\ n.achievements_count # Null
                            /\ n.schema_checked_at = NotNull(run[r].now)]_vars

\* a second run rewrote the cache columns of a row that kept the name the first
\* run's UpsertGame gave it, after the first run's UpsertGame had kept the cache
\* columns written before it
C34_Witness ==
    \E r \in Runs : \E w \in Workers :
       /\ started = 2
       /\ wk[r][w].pc = "upsertGame"
       /\ wk[r][w].gameName = ""
       /\ HasGame(wk[r][w].g.AppID)
       /\ GameRow(wk[r][w].g.AppID).name = "One"
       /\ GameRow(wk[r][w].g.AppID).schema_checked_at = NotNull(1)
       /\ run[r].now = 1

=============================================================================
